---- MODULE Spec2Model ----
(***************************************************************************)
(* State-machine model of the reactive bindings of cubejs-client-svelte:   *)
(* createCubeQuery, createCubeMeta, createCubeSql, createDryRun,           *)
(* createLazyDryRun and the metadata fetch of createQueryBuilder.          *)
(* One binding instance is a record of `cells`; every action is one        *)
(* synchronous run of a handler (constructor, $effect body, refetch(),     *)
(* run(), or the continuation after the awaited remote call).              *)
(***************************************************************************)
EXTENDS Integers, Sequences, FiniteSets, TLC

VARIABLES cells, ambient, browser, builder, call

vars == <<cells, ambient, browser, builder, call>>

\* Largest request version a cell may reach (caps the unbounded counter).
MaxVersion == 2

\* Largest number of draft operations applied to a query builder since its
\* construction or its last reset().
MaxOps == 3

-----------------------------------------------------------------------------
(* JavaScript values.  Every value is a record [t, n, s]: a type tag, a    *)
(* number (object identity or numeric value) and a string.                 *)

NullV == [t |-> "null", n |-> 0, s |-> ""]
Seed == [t |-> "seed", n |-> 0, s |-> ""]
Res(v) == [t |-> "result", n |-> v, s |-> ""]
ErrorObj(id, msg) == [t |-> "Error", n |-> id, s |-> msg]
StrV(str) == [t |-> "string", n |-> 0, s |-> str]
NumV(k) == [t |-> "number", n |-> k, s |-> ""]
UndefV == [t |-> "undefined", n |-> 0, s |-> ""]
BoolV(b) == [t |-> "boolean", n |-> IF b THEN 1 ELSE 0, s |-> ""]

\* Values a remote call of request v may reject with.
Throwables(v) == {ErrorObj(v, "Query failed"), StrV("boom"), NumV(v)}

Digit == <<"0", "1", "2", "3", "4", "5", "6", "7", "8", "9">>

RECURSIVE DecStr(_)
DecStr(k) == IF k < 10 THEN Digit[k + 1] ELSE DecStr(k \div 10) \o Digit[(k % 10) + 1]

\* String(e) of JavaScript on the modelled values.
String(e) ==
    CASE e.t = "string" -> e.s
      [] e.t = "number" -> DecStr(e.n)
      [] e.t = "null" -> "null"
      [] e.t = "Error" -> "Error: " \o e.s
      [] OTHER -> "[object Object]"

\* new Error(msg): a fresh object (identity 0); Errors thrown by the remote
\* client carry identities >= 1.
NewError(msg) == ErrorObj(0, msg)

normalizeErrorAlwaysWrap(e) == NewError(String(e))

\* e instanceof Error ? e : new Error(String(e))
normalizeError(e) ==
    IF e.t = "Error" THEN e ELSE NewError(String(e))

-----------------------------------------------------------------------------
(* Queries.  A field is undefined, a string (a non-array value with a      *)
(* length) or an array.                                                    *)

Undef == [t |-> "undefined", items |-> <<>>]
StrField(x) == [t |-> "string", items |-> <<x>>]
Arr(xs) == [t |-> "array", items |-> xs]

QObj(m, d, td) == [t |-> "object", measures |-> m, dimensions |-> d, timeDimensions |-> td]
QNull == [t |-> "null", measures |-> Undef, dimensions |-> Undef, timeDimensions |-> Undef]
QEmpty == QObj(Undef, Undef, Undef)
QNotArr == QObj(StrField("Orders.count"), Undef, Undef)
QMeasure == QObj(Arr(<<"Orders.count">>), Undef, Undef)
QTime == QObj(Undef, Undef, Arr(<<"Orders.createdAt">>))

\* Query values the query argument / query function takes in the model.
QuerySet == {QEmpty, QMeasure, QTime}

\* Arguments run(query) of the lazy dry-run is called with in the model.
RunArgs == QuerySet \cup {QNotArr}

isArray(f) == f.t = "array"

isQueryPresentByLength(query) ==
    IF query.t \in {"null", "undefined"} THEN FALSE
    ELSE LET hasMeasures == Len(query.measures.items) > 0
             hasDimensions == Len(query.dimensions.items) > 0
             hasTimeDimensions == Len(query.timeDimensions.items) > 0
         IN hasMeasures \/ hasDimensions \/ hasTimeDimensions

isQueryPresent(query) ==
    IF query.t \in {"null", "undefined"} THEN FALSE
    ELSE LET hasMeasures == isArray(query.measures) /\ Len(query.measures.items) > 0
             hasDimensions == isArray(query.dimensions) /\ Len(query.dimensions.items) > 0
             hasTimeDimensions == isArray(query.timeDimensions) /\ Len(query.timeDimensions.items) > 0
         IN hasMeasures \/ hasDimensions \/ hasTimeDimensions

\* Arguments of direct calls of isQueryPresent: null, undefined, and query
\* objects whose measures, dimensions and timeDimensions are each undefined,
\* an empty array, a non-empty array or a string, with or without filters and
\* limit.
QueryArg(m, d, td, f, lim) ==
    [t |-> "object", measures |-> m, dimensions |-> d, timeDimensions |-> td,
     filters |-> f, limit |-> lim]
FieldArgs == {Undef, Arr(<<>>), Arr(<<"Orders.count">>), StrField("Orders.count")}
QueryArgs ==
    {QueryArg(m, d, td, f, lim) :
        m \in FieldArgs, d \in FieldArgs, td \in FieldArgs,
        f \in {Undef, Arr(<<"Orders.status">>)}, lim \in {UndefV, NumV(10)}}
    \cup {[QueryArg(Undef, Undef, Undef, Undef, UndefV) EXCEPT !.t = nothing] :
            nothing \in {"null", "undefined"}}

\* The last direct call of a library function: its name, its argument, whether
\* it threw, and the value it returned.
NoCall == [fn |-> "none", arg |-> NullV, threw |-> FALSE, out |-> NullV]
Returned(fn, arg, out) == [fn |-> fn, arg |-> arg, threw |-> FALSE, out |-> out]
Threw(fn, arg) == [fn |-> fn, arg |-> arg, threw |-> TRUE, out |-> NullV]

-----------------------------------------------------------------------------
(* Ambient client registry and client resolution.                          *)

Undefined == "undefined"
JsNull == "null"
ExplicitClient == "explicit"
AmbientClients == {"ambientA", "ambientB"}

NoContext == [hasContext |-> FALSE, current |-> JsNull]
Context(cl) == [hasContext |-> TRUE, current |-> cl]

\* setContext(CUBE_CLIENT_KEY, { current: client })
setCubeClient(client) == Context(client)

getCubeClientChecksContextOnly(ctx) ==
    IF ~ctx.hasContext
    THEN [threw |-> TRUE, value |-> Undefined]
    ELSE [threw |-> FALSE, value |-> ctx.current]

\* getCubeClient(): throws when !context || !context.current
getCubeClient(ctx) ==
    IF ~ctx.hasContext \/ ctx.current = JsNull
    THEN [threw |-> TRUE, value |-> Undefined]
    ELSE [threw |-> FALSE, value |-> ctx.current]

\* context?.current ?? undefined
tryGetCubeClient(ctx) ==
    IF ~ctx.hasContext THEN Undefined
    ELSE IF ctx.current = JsNull THEN Undefined ELSE ctx.current

resolveClientAmbientFirst(clientOverride, contextClient) ==
    IF contextClient \notin {Undefined, JsNull} THEN contextClient ELSE clientOverride

\* clientOverride ?? contextClient
resolveClient(clientOverride, contextClient) ==
    IF clientOverride \notin {Undefined, JsNull} THEN clientOverride ELSE contextClient

\* !client
noClient(client) == client \in {Undefined, JsNull}

-----------------------------------------------------------------------------
(* Binding instances.                                                      *)

QueryKinds == {"query", "sql", "dryRun"}
MetaKinds == {"meta", "builder"}

\* The remote operation a binding kind calls.
RemoteOp(kind) ==
    CASE kind = "query" -> "load"
      [] kind = "sql" -> "sql"
      [] kind \in {"dryRun", "lazy"} -> "dryRun"
      [] OTHER -> "meta"

\* One issued request of a cell (entry `version` of the cell's request log):
\* the query and client it was sent with, its state ("inflight", "ok", "fail",
\* "skipped" when the query was not present and no call was made, "past" once
\* its outcome was superseded by a newer request, "stale" when it settled after
\* a newer request had been issued), the value it settled with and the promise
\* handed to the caller.
Request(q, client, op, st, promise) ==
    [q |-> q, client |-> client, op |-> op, st |-> st, out |-> NullV, promise |-> promise]

\* Log a new request; settled outcomes of earlier requests are dropped from the log.
logRequest(reqs, r) ==
    Append([v \in DOMAIN reqs |->
               IF reqs[v].st \in {"ok", "fail"}
               THEN [reqs[v] EXCEPT !.st = "past", !.out = NullV] ELSE reqs[v]], r)

\* The binding before its constructor has run.
NewCell(kind, skip, ssr, initial, isFn, clientOverride, query) ==
    [kind |-> kind, skip |-> skip, ssr |-> ssr, initial |-> initial, isFn |-> isFn,
     clientOverride |-> clientOverride, query |-> query,
     status |-> "unconstructed", client |-> Undefined,
     value |-> NullV, loading |-> FALSE, error |-> NullV,
     hasRefetched |-> FALSE, requestVersion |-> 0, lastQuery |-> QNull,
     effectPending |-> FALSE, tracked |-> FALSE, mounted |-> FALSE,
     reqs |-> <<>>, absentTrigger |-> FALSE, noopRefetch |-> FALSE, refetchCalls |-> 0,
     runCalls |-> 0, lastRunArg |-> QNull]

Overrides == {Undefined, ExplicitClient}

Configs ==
    {NewCell("query", skip, ssr, initial, isFn, co, q) :
        skip \in BOOLEAN, ssr \in BOOLEAN, initial \in BOOLEAN, isFn \in BOOLEAN,
        co \in Overrides, q \in QuerySet}
    \cup {NewCell(k, FALSE, ssr, FALSE, isFn, co, q) :
        k \in {"sql", "dryRun"}, ssr \in BOOLEAN, isFn \in BOOLEAN,
        co \in Overrides, q \in QuerySet}
    \cup {NewCell(k, FALSE, ssr, initial, FALSE, co, QNull) :
        k \in MetaKinds, ssr \in BOOLEAN, initial \in BOOLEAN, co \in Overrides}
    \cup {NewCell("lazy", FALSE, FALSE, FALSE, FALSE, co, QNull) : co \in Overrides}

\* data = null; loading = false; error = null
idle(c) == [c EXCEPT !.value = NullV, !.loading = FALSE, !.error = NullV]

getQueryAtLastTrigger(c) == IF c.reqs # <<>> THEN c.reqs[Len(c.reqs)].q ELSE c.query

\* typeof query === 'function' ? query() : query
getQuery(c) == c.query

constructCapturesError(c, ctx) ==
    LET client == resolveClient(c.clientOverride, tryGetCubeClient(ctx))
    IN [c EXCEPT !.status = "live", !.client = client,
                 !.value = IF c.initial THEN Seed ELSE NullV,
                 !.error = IF noClient(client)
                           THEN NewError("No CubeJS client available.") ELSE NullV,
                 !.effectPending = (c.kind # "lazy")]

\* The constructor: resolve the client, throw when there is none, otherwise
\* create the state and register the $effect (none for the lazy dry-run).
construct(c, ctx) ==
    LET contextClient == tryGetCubeClient(ctx)
        client == resolveClient(c.clientOverride, contextClient)
    IN IF noClient(client)
       THEN [c EXCEPT !.status = "threw"]
       ELSE [c EXCEPT !.status = "live", !.client = client,
                      !.value = IF c.initial THEN Seed ELSE NullV,
                      !.effectPending = (c.kind # "lazy")]

executeQueryNoGate(c, version) ==
    [c EXCEPT !.loading = TRUE, !.error = NullV, !.absentTrigger = FALSE,
              !.reqs = logRequest(@, Request(getQuery(c), c.client, RemoteOp(c.kind),
                                             "inflight", "pending"))]

executeQueryAbsentKeepsState(c, version) ==
    LET currentQuery == getQuery(c)
    IN IF ~isQueryPresent(currentQuery)
       THEN [c EXCEPT !.absentTrigger = TRUE,
                      !.reqs = logRequest(@, Request(currentQuery, c.client,
                                                     RemoteOp(c.kind), "skipped", "resolved"))]
       ELSE [c EXCEPT !.loading = TRUE, !.error = NullV, !.absentTrigger = FALSE,
                      !.reqs = logRequest(@, Request(currentQuery, c.client,
                                                     RemoteOp(c.kind), "inflight", "pending"))]

executeQueryClearsValue(c, version) ==
    LET currentQuery == getQuery(c)
    IN IF ~isQueryPresent(currentQuery)
       THEN LET c1 == IF version = c.requestVersion THEN idle(c) ELSE c
            IN [c1 EXCEPT !.absentTrigger = TRUE,
                          !.reqs = logRequest(@, Request(currentQuery, c.client,
                                                         RemoteOp(c.kind), "skipped", "resolved"))]
       ELSE [c EXCEPT !.loading = TRUE, !.error = NullV, !.value = NullV,
                      !.absentTrigger = FALSE,
                      !.reqs = logRequest(@, Request(currentQuery, c.client,
                                                     RemoteOp(c.kind), "inflight", "pending"))]

\* executeQuery / fetchSql / executeDryRun up to the awaited remote call.
executeQuery(c, version) ==
    LET currentQuery == getQuery(c)
    IN IF ~isQueryPresent(currentQuery)
       THEN LET c1 == IF version = c.requestVersion THEN idle(c) ELSE c
            IN [c1 EXCEPT !.absentTrigger = TRUE,
                          !.reqs = logRequest(@, Request(currentQuery, c.client,
                                                         RemoteOp(c.kind), "skipped", "resolved"))]
       ELSE [c EXCEPT !.loading = TRUE, !.error = NullV, !.absentTrigger = FALSE,
                      !.reqs = logRequest(@, Request(currentQuery, c.client,
                                                     RemoteOp(c.kind), "inflight", "pending"))]

\* fetchMeta up to the awaited client.meta().
fetchMeta(c, version) ==
    [c EXCEPT !.loading = TRUE, !.error = NullV,
              !.reqs = logRequest(@, Request(QNull, c.client, "meta", "inflight", "pending"))]

runRemembersPresentOnly(c, query) ==
    LET c0 == [c EXCEPT !.requestVersion = @ + 1]
        version == c0.requestVersion
    IN IF ~isQueryPresent(query)
       THEN LET c1 == IF version = c0.requestVersion THEN idle(c0) ELSE c0
            IN [c1 EXCEPT !.reqs = logRequest(@, Request(query, c.client, "dryRun",
                                                         "skipped", "resolved"))]
       ELSE [c0 EXCEPT !.lastQuery = query, !.loading = TRUE, !.error = NullV,
                       !.reqs = logRequest(@, Request(query, c.client, "dryRun",
                                                      "inflight", "pending"))]

\* run(query) of the lazy dry-run up to the awaited client.dryRun(query).
run(c, query) ==
    LET c0 == [c EXCEPT !.lastQuery = query, !.requestVersion = @ + 1]
        version == c0.requestVersion
    IN IF ~isQueryPresent(query)
       THEN LET c1 == IF version = c0.requestVersion THEN idle(c0) ELSE c0
            IN [c1 EXCEPT !.reqs = logRequest(@, Request(query, c.client, "dryRun",
                                                         "skipped", "resolved"))]
       ELSE [c0 EXCEPT !.loading = TRUE, !.error = NullV,
                       !.reqs = logRequest(@, Request(query, c.client, "dryRun",
                                                      "inflight", "pending"))]

refetchRunsWithoutQuery(c) ==
    CASE c.kind = "query" ->
            executeQuery([c EXCEPT !.hasRefetched = TRUE, !.requestVersion = @ + 1],
                         c.requestVersion + 1)
      [] c.kind \in {"sql", "dryRun"} ->
            executeQuery([c EXCEPT !.requestVersion = @ + 1], c.requestVersion + 1)
      [] c.kind = "meta" ->
            fetchMeta([c EXCEPT !.hasRefetched = TRUE, !.requestVersion = @ + 1],
                      c.requestVersion + 1)
      [] c.kind = "lazy" -> run(c, c.lastQuery)
      [] OTHER -> c

refetchKeepsSeed(c) ==
    IF c.initial /\ c.value = Seed THEN [c EXCEPT !.hasRefetched = TRUE]
    ELSE CASE c.kind = "query" ->
                 executeQuery([c EXCEPT !.hasRefetched = TRUE, !.requestVersion = @ + 1],
                              c.requestVersion + 1)
           [] c.kind \in {"sql", "dryRun"} ->
                 executeQuery([c EXCEPT !.requestVersion = @ + 1], c.requestVersion + 1)
           [] c.kind = "meta" ->
                 fetchMeta([c EXCEPT !.hasRefetched = TRUE, !.requestVersion = @ + 1],
                           c.requestVersion + 1)
           [] c.kind = "lazy" ->
                 IF c.lastQuery.t # "null"
                 THEN run(c, c.lastQuery)
                 ELSE [c EXCEPT !.noopRefetch = TRUE]
           [] OTHER -> c

refetchDedupesInFlight(c) ==
    IF c.loading THEN c
    ELSE CASE c.kind = "query" ->
                 executeQuery([c EXCEPT !.hasRefetched = TRUE, !.requestVersion = @ + 1],
                              c.requestVersion + 1)
           [] c.kind \in {"sql", "dryRun"} ->
                 executeQuery([c EXCEPT !.requestVersion = @ + 1], c.requestVersion + 1)
           [] c.kind = "meta" ->
                 fetchMeta([c EXCEPT !.hasRefetched = TRUE, !.requestVersion = @ + 1],
                           c.requestVersion + 1)
           [] c.kind = "lazy" ->
                 IF c.lastQuery.t # "null"
                 THEN run(c, c.lastQuery)
                 ELSE [c EXCEPT !.noopRefetch = TRUE]
           [] OTHER -> c

\* refetch() of each binding up to the awaited remote call.
refetch(c) ==
    CASE c.kind = "query" ->
            executeQuery([c EXCEPT !.hasRefetched = TRUE, !.requestVersion = @ + 1],
                         c.requestVersion + 1)
      [] c.kind \in {"sql", "dryRun"} ->
            executeQuery([c EXCEPT !.requestVersion = @ + 1], c.requestVersion + 1)
      [] c.kind = "meta" ->
            fetchMeta([c EXCEPT !.hasRefetched = TRUE, !.requestVersion = @ + 1],
                      c.requestVersion + 1)
      [] c.kind = "lazy" ->
            IF c.lastQuery.t # "null"
            THEN run(c, c.lastQuery)
            ELSE [c EXCEPT !.noopRefetch = TRUE]
      [] OTHER -> c

effectNeverTracks(c, isBrowser) ==
    LET done == [c EXCEPT !.effectPending = FALSE, !.mounted = TRUE, !.tracked = FALSE]
    IN IF c.kind = "query" /\ c.skip THEN idle(done)
       ELSE IF ~isBrowser /\ ~c.ssr THEN done
       ELSE IF c.kind \in {"query", "meta", "builder"} /\ c.initial /\ ~c.hasRefetched THEN done
       ELSE IF c.kind \in MetaKinds
            THEN fetchMeta([done EXCEPT !.requestVersion = @ + 1],
                           c.requestVersion + 1)
       ELSE LET currentQuery == getQuery(c)
            IN IF isQueryPresent(currentQuery)
               THEN executeQuery([done EXCEPT !.requestVersion = @ + 1],
                                 c.requestVersion + 1)
               ELSE [done EXCEPT !.absentTrigger = TRUE]

effectIgnoresSeed(c, isBrowser) ==
    LET done == [c EXCEPT !.effectPending = FALSE, !.mounted = TRUE, !.tracked = FALSE]
    IN IF c.kind = "query" /\ c.skip THEN idle(done)
       ELSE IF ~isBrowser /\ ~c.ssr THEN done
       ELSE IF c.kind \in MetaKinds
            THEN fetchMeta([done EXCEPT !.requestVersion = @ + 1],
                           c.requestVersion + 1)
       ELSE LET currentQuery == getQuery(c)
                read == [done EXCEPT !.tracked = c.isFn]
            IN IF isQueryPresent(currentQuery)
               THEN executeQuery([read EXCEPT !.requestVersion = @ + 1],
                                 c.requestVersion + 1)
               ELSE [read EXCEPT !.absentTrigger = TRUE]

effectNoEnvironmentGate(c, isBrowser) ==
    LET done == [c EXCEPT !.effectPending = FALSE, !.mounted = TRUE, !.tracked = FALSE]
    IN IF c.kind = "query" /\ c.skip THEN idle(done)
       ELSE IF c.kind \in {"query", "meta", "builder"} /\ c.initial /\ ~c.hasRefetched THEN done
       ELSE IF c.kind \in MetaKinds
            THEN fetchMeta([done EXCEPT !.requestVersion = @ + 1],
                           c.requestVersion + 1)
       ELSE LET currentQuery == getQuery(c)
                read == [done EXCEPT !.tracked = c.isFn]
            IN IF isQueryPresent(currentQuery)
               THEN executeQuery([read EXCEPT !.requestVersion = @ + 1],
                                 c.requestVersion + 1)
               ELSE [read EXCEPT !.absentTrigger = TRUE]

effectReusesVersion(c, isBrowser) ==
    LET done == [c EXCEPT !.effectPending = FALSE, !.mounted = TRUE, !.tracked = FALSE]
    IN IF c.kind = "query" /\ c.skip THEN idle(done)
       ELSE IF ~isBrowser /\ ~c.ssr THEN done
       ELSE IF c.kind \in {"query", "meta", "builder"} /\ c.initial /\ ~c.hasRefetched THEN done
       ELSE IF c.kind \in MetaKinds
            THEN fetchMeta(done, c.requestVersion)
       ELSE LET currentQuery == getQuery(c)
                read == [done EXCEPT !.tracked = c.isFn]
            IN IF isQueryPresent(currentQuery)
               THEN executeQuery(read, c.requestVersion)
               ELSE [read EXCEPT !.absentTrigger = TRUE]

\* The body of the binding's $effect.
effect(c, isBrowser) ==
    LET done == [c EXCEPT !.effectPending = FALSE, !.mounted = TRUE, !.tracked = FALSE]
    IN IF c.kind = "query" /\ c.skip THEN idle(done)
       ELSE IF ~isBrowser /\ ~c.ssr THEN done
       ELSE IF c.kind \in {"query", "meta", "builder"} /\ c.initial /\ ~c.hasRefetched THEN done
       ELSE IF c.kind \in MetaKinds
            THEN fetchMeta([done EXCEPT !.requestVersion = @ + 1],
                           c.requestVersion + 1)
       ELSE LET currentQuery == getQuery(c)
                read == [done EXCEPT !.tracked = c.isFn]
            IN IF isQueryPresent(currentQuery)
               THEN executeQuery([read EXCEPT !.requestVersion = @ + 1],
                                 c.requestVersion + 1)
               ELSE [read EXCEPT !.absentTrigger = TRUE]

\* Log a settlement: the async function returns, so its promise resolves; the
\* outcome is kept only when the request is still the latest one.
settled(c, version, st, out) ==
    IF version = Len(c.reqs)
    THEN [c EXCEPT !.reqs[version].st = st, !.reqs[version].out = out,
                   !.reqs[version].promise = "resolved"]
    ELSE [c EXCEPT !.reqs[version].st = "stale", !.reqs[version].promise = "resolved"]

onSuccessNoVersionCheck(c, version, result) ==
    settled([c EXCEPT !.value = result, !.loading = FALSE], version, "ok", result)

onSuccessUnguardedFinally(c, version, result) ==
    LET c1 == IF version = c.requestVersion THEN [c EXCEPT !.value = result] ELSE c
    IN settled([c1 EXCEPT !.loading = FALSE], version, "ok", result)

onSuccessKeepsLoading(c, version, result) ==
    LET c1 == IF version = c.requestVersion THEN [c EXCEPT !.value = result] ELSE c
    IN settled(c1, version, "ok", result)

\* The continuation after the awaited call resolved: try body, then finally.
onSuccess(c, version, result) ==
    LET c1 == IF version = c.requestVersion THEN [c EXCEPT !.value = result] ELSE c
        c2 == IF version = c1.requestVersion THEN [c1 EXCEPT !.loading = FALSE] ELSE c1
    IN settled(c2, version, "ok", result)

onFailureRetries(c, version, e) ==
    LET c1 == IF version = c.requestVersion
              THEN [c EXCEPT !.error = normalizeError(e), !.value = NullV] ELSE c
        c2 == settled(c1, version, "fail", e)
    IN [c2 EXCEPT !.requestVersion = @ + 1, !.loading = TRUE,
                  !.reqs = logRequest(@, Request(getQuery(c), c.client, RemoteOp(c.kind),
                                                 "inflight", "pending"))]

onFailureKeepsValue(c, version, e) ==
    LET c1 == IF version = c.requestVersion
              THEN [c EXCEPT !.error = normalizeError(e)] ELSE c
        c2 == IF version = c1.requestVersion THEN [c1 EXCEPT !.loading = FALSE] ELSE c1
    IN settled(c2, version, "fail", e)

onFailureUnguardedFinally(c, version, e) ==
    LET c1 == IF version = c.requestVersion
              THEN [c EXCEPT !.error = normalizeError(e), !.value = NullV] ELSE c
    IN settled([c1 EXCEPT !.loading = FALSE], version, "fail", e)

onFailureRethrows(c, version, e) ==
    LET c1 == IF version = c.requestVersion THEN [c EXCEPT !.loading = FALSE] ELSE c
    IN [settled(c1, version, "fail", e) EXCEPT !.reqs[version].promise = "rejected"]

\* The continuation after the awaited call rejected: catch body, then finally.
onFailure(c, version, e) ==
    LET c1 == IF version = c.requestVersion
              THEN [c EXCEPT !.error = normalizeError(e), !.value = NullV] ELSE c
        c2 == IF version = c1.requestVersion THEN [c1 EXCEPT !.loading = FALSE] ELSE c1
    IN settled(c2, version, "fail", e)

-----------------------------------------------------------------------------
(* The draft of createQueryBuilder: one mutable container per query field  *)
(* plus chartType, and the initial* values captured by the constructor.    *)

\* Members, time dimension entries, filters and order items used as arguments.
Measures == {"Orders.count", "Orders.total"}
Dimensions == {"Orders.status", "Orders.city"}
Segments == {"Orders.paid", "Orders.open"}
TimeKeys == {"Orders.createdAt", "Orders.updatedAt"}
TimeDimension(dimension, granularity) == [dimension |-> dimension, granularity |-> granularity]
TimeDimensions == {TimeDimension(d, g) : d \in TimeKeys, g \in {"day", "month"}}
TimeUpdates == {[granularity |-> "month"], [dimension |-> "Orders.updatedAt"]}
Filter(member, operator) == [member |-> member, operator |-> operator]
Filters == {Filter("Orders.status", "set"), Filter("Orders.city", "notSet")}
OrderItems == {<<"Orders.count", "desc">>, <<"Orders.status", "asc">>}
ChartTypes == {"line", "bar", "pie"}

\* The lists the set operations are called with: the empty list and the
\* lists of two different items of S.
Lists(S) == {<<>>} \cup {xs \in {<<x, y>> : x \in S, y \in S} : xs[1] # xs[2]}

\* Array.prototype.includes
includes(xs, x) == \E j \in DOMAIN xs : xs[j] = x

\* xs.filter((_, i) => i !== index), with JavaScript's 0-based index
filterIndex(xs, index) ==
    LET idx == SelectSeq([j \in 1..Len(xs) |-> j], LAMBDA j : j - 1 # index)
    IN [k \in 1..Len(idx) |-> xs[idx[k]]]

\* { ...td, ...updates }
merge(td, updates) ==
    [k \in DOMAIN td \cup DOMAIN updates |-> IF k \in DOMAIN updates THEN updates[k] ELSE td[k]]

\* Query['order'] in its array format (items may be malformed) and its object
\* format (entries key -> direction).
OrderUndef == [t |-> "undefined", items |-> <<>>]
OrderArray(items) == [t |-> "array", items |-> items]
OrderObject(entries) == [t |-> "object", items |-> entries]

isOrderItem(item) == Len(item) = 2 /\ item[2] \in {"asc", "desc"}

normalizeOrder(order) ==
    IF order.t \in {"undefined", "null"} THEN <<>>
    ELSE IF order.t = "array" THEN SelectSeq(order.items, isOrderItem)
    ELSE SelectSeq(order.items, LAMBDA e : e[2] \in {"asc", "desc"})

\* The initialQuery option: undefined, or a query object whose fields may be absent.
InitialQuery(m, d, sg, td, f, o, lim, off, tz, renew) ==
    [t |-> "object", measures |-> m, dimensions |-> d, segments |-> sg,
     timeDimensions |-> td, filters |-> f, order |-> o,
     limit |-> lim, offset |-> off, timezone |-> tz, renewQuery |-> renew]
NoInitialQuery ==
    [InitialQuery(Undef, Undef, Undef, Undef, Undef, OrderUndef,
                  UndefV, UndefV, UndefV, UndefV) EXCEPT !.t = "undefined"]

InitialQueries ==
    {NoInitialQuery,
     InitialQuery(Arr(<<"Orders.count">>), Undef, Undef, Undef, Undef,
                  OrderArray(<<<<"Orders.count", "desc">>, <<"Orders.count", "up">>>>),
                  NumV(10), NullV, UndefV, UndefV),
     InitialQuery(Undef, Arr(<<"Orders.status">>), Arr(<<"Orders.paid">>),
                  Arr(<<TimeDimension("Orders.createdAt", "day")>>),
                  Arr(<<Filter("Orders.status", "set")>>),
                  OrderObject(<<<<"Orders.status", "asc">>, <<"Orders.city", "none">>>>),
                  UndefV, NumV(0), StrV("UTC"), BoolV(TRUE))}

\* The initialChartType option: undefined or a chart type.
InitialChartTypes == {Undefined, "bar"}

\* The options the modelled builders are constructed with.
BuilderOptions ==
    {o \in [initialQuery : InitialQueries, initialChartType : InitialChartTypes] :
        o.initialChartType = "bar" <=> isArray(o.initialQuery.measures)}

\* initialQuery?.field
optional(initialQuery, field, undef) ==
    IF initialQuery.t = "undefined" THEN undef ELSE initialQuery[field]

\* initialQuery?.field ?? []
listOrEmpty(f) == IF f.t \in {"undefined", "null"} THEN <<>> ELSE f.items

\* initialQuery?.field ?? dflt
valueOr(v, dflt) == IF v.t \in {"undefined", "null"} THEN dflt ELSE v

\* The draft created by createQueryBuilder(options): the initial* constants
\* and the state initialised from them.  ops and lastOp record the operations
\* applied so far, atConstruction is the draft as the constructor left it and
\* restored tells whether the last reset() found a changed draft.
createQueryBuilder(initialQuery, initialChartTypeOption) ==
    LET initialMeasures == listOrEmpty(optional(initialQuery, "measures", Undef))
        initialDimensions == listOrEmpty(optional(initialQuery, "dimensions", Undef))
        initialSegments == listOrEmpty(optional(initialQuery, "segments", Undef))
        initialTimeDimensions == listOrEmpty(optional(initialQuery, "timeDimensions", Undef))
        initialFilters == listOrEmpty(optional(initialQuery, "filters", Undef))
        initialOrder == normalizeOrder(optional(initialQuery, "order", OrderUndef))
        initialLimit == valueOr(optional(initialQuery, "limit", UndefV), UndefV)
        initialOffset == valueOr(optional(initialQuery, "offset", UndefV), UndefV)
        initialTimezone == valueOr(optional(initialQuery, "timezone", UndefV), UndefV)
        initialRenewQuery == valueOr(optional(initialQuery, "renewQuery", UndefV), BoolV(FALSE))
        initialChartType == IF initialChartTypeOption = Undefined THEN "line"
                            ELSE initialChartTypeOption
        state == [measures |-> initialMeasures, dimensions |-> initialDimensions,
                  segments |-> initialSegments, timeDimensions |-> initialTimeDimensions,
                  filters |-> initialFilters, order |-> initialOrder,
                  chartType |-> initialChartType, limit |-> initialLimit,
                  offset |-> initialOffset, timezone |-> initialTimezone,
                  renewQuery |-> initialRenewQuery]
    IN [initialQuery |-> initialQuery, initialChartTypeOption |-> initialChartTypeOption,
        initialMeasures |-> initialMeasures, initialDimensions |-> initialDimensions,
        initialSegments |-> initialSegments, initialTimeDimensions |-> initialTimeDimensions,
        initialFilters |-> initialFilters, initialOrder |-> initialOrder,
        initialChartType |-> initialChartType, initialLimit |-> initialLimit,
        initialOffset |-> initialOffset, initialTimezone |-> initialTimezone,
        initialRenewQuery |-> initialRenewQuery,
        measures |-> state.measures, dimensions |-> state.dimensions,
        segments |-> state.segments, timeDimensions |-> state.timeDimensions,
        filters |-> state.filters, order |-> state.order,
        chartType |-> state.chartType, limit |-> state.limit,
        offset |-> state.offset, timezone |-> state.timezone,
        renewQuery |-> state.renewQuery,
        atConstruction |-> state, ops |-> 0, lastOp |-> "createQueryBuilder",
        restored |-> FALSE]

derivedQueryTruthyScalars(b) ==
    LET keys == {k \in {"measures", "dimensions", "segments", "timeDimensions",
                        "filters", "order"} : Len(b[k]) > 0}
                \cup {k \in {"limit", "offset", "timezone"} :
                        b[k].t # "undefined" /\ b[k] \notin {NumV(0), StrV("")}}
                \cup {k \in {"renewQuery"} : b[k] = BoolV(TRUE)}
    IN [k \in keys |-> b[k]]

\* The derived query object: a key per draft field that is a non-empty list,
\* a scalar !== undefined, or a truthy renewQuery.
derivedQuery(b) ==
    LET keys == {k \in {"measures", "dimensions", "segments", "timeDimensions",
                        "filters", "order"} : Len(b[k]) > 0}
                \cup {k \in {"limit", "offset", "timezone"} : b[k].t # "undefined"}
                \cup {k \in {"renewQuery"} : b[k] = BoolV(TRUE)}
    IN [k \in keys |-> b[k]]

addMeasureAlwaysAppends(b, measure) == [b EXCEPT !.measures = Append(@, measure)]

addMeasure(b, measure) ==
    IF ~includes(b.measures, measure)
    THEN [b EXCEPT !.measures = Append(@, measure)] ELSE b

removeMeasureFirstOnly(b, measure) ==
    LET first == {j \in DOMAIN b.measures : b.measures[j] = measure}
    IN IF first = {} THEN b
       ELSE LET k == CHOOSE j \in first : \A l \in first : j <= l
            IN [b EXCEPT !.measures = SubSeq(@, 1, k - 1) \o SubSeq(@, k + 1, Len(@))]

removeMeasure(b, measure) ==
    [b EXCEPT !.measures = SelectSeq(@, LAMBDA m : m # measure)]

updateMeasureFirstOnly(b, oldMeasure, newMeasure) ==
    LET hits == {j \in DOMAIN b.measures : b.measures[j] = oldMeasure}
    IN IF hits = {} THEN b
       ELSE LET k == CHOOSE j \in hits : \A l \in hits : j <= l
            IN [b EXCEPT !.measures[k] = newMeasure]

updateMeasure(b, oldMeasure, newMeasure) ==
    [b EXCEPT !.measures = [j \in DOMAIN @ |-> IF @[j] = oldMeasure THEN newMeasure ELSE @[j]]]

setMeasures(b, newMeasures) == [b EXCEPT !.measures = newMeasures]

addDimension(b, dimension) ==
    IF ~includes(b.dimensions, dimension)
    THEN [b EXCEPT !.dimensions = Append(@, dimension)] ELSE b

removeDimension(b, dimension) ==
    [b EXCEPT !.dimensions = SelectSeq(@, LAMBDA d : d # dimension)]

updateDimension(b, oldDimension, newDimension) ==
    [b EXCEPT !.dimensions = [j \in DOMAIN @ |-> IF @[j] = oldDimension THEN newDimension ELSE @[j]]]

setDimensions(b, newDimensions) == [b EXCEPT !.dimensions = newDimensions]

addSegment(b, segment) ==
    IF ~includes(b.segments, segment)
    THEN [b EXCEPT !.segments = Append(@, segment)] ELSE b

removeSegment(b, segment) ==
    [b EXCEPT !.segments = SelectSeq(@, LAMBDA sg : sg # segment)]

setSegments(b, newSegments) == [b EXCEPT !.segments = newSegments]

addTimeDimension(b, timeDimension) ==
    LET exists == \E j \in DOMAIN b.timeDimensions :
                      b.timeDimensions[j].dimension = timeDimension.dimension
    IN IF ~exists THEN [b EXCEPT !.timeDimensions = Append(@, timeDimension)] ELSE b

removeTimeDimension(b, dimension) ==
    [b EXCEPT !.timeDimensions = SelectSeq(@, LAMBDA td : td.dimension # dimension)]

updateTimeDimension(b, dimension, updates) ==
    [b EXCEPT !.timeDimensions =
        [j \in DOMAIN @ |-> IF @[j].dimension = dimension THEN merge(@[j], updates) ELSE @[j]]]

setTimeDimensions(b, newTimeDimensions) == [b EXCEPT !.timeDimensions = newTimeDimensions]

addFilter(b, filter) == [b EXCEPT !.filters = Append(@, filter)]

removeFilter(b, index) == [b EXCEPT !.filters = filterIndex(@, index)]

updateFilter(b, index, filter) ==
    [b EXCEPT !.filters = [j \in DOMAIN @ |-> IF j - 1 = index THEN filter ELSE @[j]]]

setFilters(b, newFilters) == [b EXCEPT !.filters = newFilters]

setOrder(b, newOrder) == [b EXCEPT !.order = newOrder]

setChartType(b, newChartType) == [b EXCEPT !.chartType = newChartType]

setLimit(b, newLimit) == [b EXCEPT !.limit = newLimit]

setOffset(b, newOffset) == [b EXCEPT !.offset = newOffset]

setTimezone(b, newTimezone) == [b EXCEPT !.timezone = newTimezone]

setRenewQuery(b, newRenewQuery) == [b EXCEPT !.renewQuery = newRenewQuery]

resetKeepsChartType(b) ==
    [b EXCEPT !.measures = b.initialMeasures, !.dimensions = b.initialDimensions,
              !.segments = b.initialSegments, !.timeDimensions = b.initialTimeDimensions,
              !.filters = b.initialFilters, !.order = b.initialOrder,
              !.limit = b.initialLimit,
              !.offset = b.initialOffset, !.timezone = b.initialTimezone,
              !.renewQuery = b.initialRenewQuery]

reset(b) ==
    [b EXCEPT !.measures = b.initialMeasures, !.dimensions = b.initialDimensions,
              !.segments = b.initialSegments, !.timeDimensions = b.initialTimeDimensions,
              !.filters = b.initialFilters, !.order = b.initialOrder,
              !.chartType = b.initialChartType, !.limit = b.initialLimit,
              !.offset = b.initialOffset, !.timezone = b.initialTimezone,
              !.renewQuery = b.initialRenewQuery]

-----------------------------------------------------------------------------
(* Metadata and the available-member lists of createQueryBuilder.          *)

\* A member of a cube as client.meta() returns it; public and isVisible are
\* booleans, undefined, or (public) null.
Member(name, type, public, isVisible) ==
    [name |-> name, title |-> name \o " title", shortTitle |-> name \o " short",
     type |-> type, public |-> public, isVisible |-> isVisible]

Cube(measures, dimensions, segments) ==
    [measures |-> measures, dimensions |-> dimensions, segments |-> segments]

MetaValue(cubes) == [t |-> "meta", cubes |-> cubes]
MetaNull == [t |-> "null", cubes |-> <<>>]

Publics == {BoolV(TRUE), BoolV(FALSE), UndefV, NullV}
Visibles == {BoolV(TRUE), BoolV(FALSE), UndefV}

\* Metadata with two cubes, one of them without measures and segments.
MetaOrders ==
    MetaValue(<<Cube(<<Member("Orders.count", "number", BoolV(TRUE), BoolV(FALSE)),
                       Member("Orders.total", "number", BoolV(FALSE), BoolV(TRUE))>>,
                     <<Member("Orders.status", "string", UndefV, BoolV(TRUE)),
                       Member("Orders.createdAt", "time", NullV, BoolV(FALSE))>>,
                     <<Member("Orders.paid", "", UndefV, UndefV)>>),
                Cube(<<>>,
                     <<Member("Users.signedUp", "time", BoolV(TRUE), UndefV),
                       Member("Users.city", "string", BoolV(FALSE), BoolV(FALSE))>>,
                     <<>>)>>)

\* Metadata whose only dimension is a time dimension.
MetaEvents ==
    MetaValue(<<Cube(<<Member("Events.count", "number", NullV, BoolV(TRUE))>>,
                     <<Member("Events.at", "time", UndefV, BoolV(FALSE))>>,
                     <<>>)>>)

\* Metadata without cubes.
MetaEmpty == MetaValue(<<>>)

\* The metadata a cell's value stands for: null, the initialMeta seed, or
\* what client.meta() of request n resolved with.
metaOf(value) ==
    CASE value.t = "seed" -> MetaEvents
      [] value.t = "result" -> IF value.n % 2 = 1 THEN MetaOrders ELSE MetaEmpty
      [] OTHER -> MetaNull

\* Metadata of one cube with one measure, one dimension and one segment, for
\* every combination of the public and isVisible flags and both kinds of
\* dimension.
Metas ==
    {MetaValue(<<Cube(<<Member("Orders.count", "number", p, v)>>,
                      <<Member("Orders.field", ty, p, v)>>,
                      <<Member("Orders.paid", "", p, v)>>)>>) :
        p \in Publics, v \in Visibles, ty \in {"string", "time"}}
    \cup {MetaNull, MetaEmpty, MetaOrders, MetaEvents}

RECURSIVE flat(_)
\* The concatenation flatMap builds from the per-cube lists.
flat(lists) == IF lists = <<>> THEN <<>> ELSE Head(lists) \o flat(Tail(lists))

visibilityTruthy(m) == IF m.public = BoolV(TRUE) THEN m.public ELSE m.isVisible

\* m.public ?? m.isVisible
visibility(m) == IF m.public.t \in {"undefined", "null"} THEN m.isVisible ELSE m.public

AvailableMember(m, type) ==
    [name |-> m.name, title |-> m.title, shortTitle |-> m.shortTitle,
     type |-> type, isVisible |-> visibility(m)]

availableMeasures(meta) ==
    IF meta.t = "null" THEN <<>>
    ELSE flat([k \in DOMAIN meta.cubes |->
                 [j \in DOMAIN meta.cubes[k].measures |->
                     AvailableMember(meta.cubes[k].measures[j], meta.cubes[k].measures[j].type)]])

availableDimensionsWithTime(meta) ==
    IF meta.t = "null" THEN <<>>
    ELSE flat([k \in DOMAIN meta.cubes |->
                 [j \in DOMAIN meta.cubes[k].dimensions |->
                     AvailableMember(meta.cubes[k].dimensions[j],
                                     meta.cubes[k].dimensions[j].type)]])

availableDimensions(meta) ==
    IF meta.t = "null" THEN <<>>
    ELSE flat([k \in DOMAIN meta.cubes |->
                 LET ds == SelectSeq(meta.cubes[k].dimensions, LAMBDA d : d.type # "time")
                 IN [j \in DOMAIN ds |-> AvailableMember(ds[j], ds[j].type)]])

availableTimeDimensions(meta) ==
    IF meta.t = "null" THEN <<>>
    ELSE flat([k \in DOMAIN meta.cubes |->
                 LET ds == SelectSeq(meta.cubes[k].dimensions, LAMBDA d : d.type = "time")
                 IN [j \in DOMAIN ds |-> AvailableMember(ds[j], ds[j].type)]])

availableSegments(meta) ==
    IF meta.t = "null" THEN <<>>
    ELSE flat([k \in DOMAIN meta.cubes |->
                 [j \in DOMAIN meta.cubes[k].segments |->
                     AvailableMember(meta.cubes[k].segments[j], "segment")]])

-----------------------------------------------------------------------------
(* Specification.                                                          *)

Insts == DOMAIN cells

InitN(n) ==
    /\ cells \in [1..n -> Configs]
    /\ ambient \in {NoContext, Context(JsNull), Context("ambientA")}
    /\ browser \in BOOLEAN
    /\ builder = createQueryBuilder(NoInitialQuery, Undefined)
    /\ call = NoCall

Init == InitN(1)

ProviderEffectRebinds ==
    /\ ambient.hasContext
    /\ \/ ambient.current = JsNull /\ ambient' = Context("ambientA")
       \/ ambient.current = "ambientA" /\ ambient' = Context("ambientB")
    /\ cells' = [i \in Insts |->
                   IF cells[i].status = "live" /\ cells[i].clientOverride = Undefined
                   THEN [cells[i] EXCEPT !.client = ambient'.current] ELSE cells[i]]
    /\ UNCHANGED <<browser, builder, call>>

\* CubeProvider's $effect installs a freshly created client in its context.
ProviderEffect ==
    /\ ambient.hasContext
    /\ \/ ambient.current = JsNull /\ ambient' = Context("ambientA")
       \/ ambient.current = "ambientA" /\ ambient' = Context("ambientB")
    /\ UNCHANGED <<cells, browser, builder, call>>

Construct(i) ==
    /\ cells[i].status = "unconstructed"
    /\ cells' = [cells EXCEPT ![i] = construct(@, ambient)]
    /\ UNCHANGED <<ambient, browser, builder, call>>

\* $effect bodies run when the framework flushes them: once after the
\* component is created and again after a dependency read by the last run changed.
Effect(i) ==
    /\ cells[i].status = "live"
    /\ cells[i].effectPending
    /\ effect(cells[i], browser).requestVersion <= MaxVersion
    /\ cells' = [cells EXCEPT ![i] = effect(@, browser)]
    /\ UNCHANGED <<ambient, browser, builder, call>>

\* The reactive state read by the query function changes its result.
ChangeQuery(i, q) ==
    /\ cells[i].status = "live"
    /\ cells[i].kind \in QueryKinds
    /\ cells[i].isFn
    /\ q # cells[i].query
    /\ cells' = [cells EXCEPT ![i].query = q,
                              ![i].effectPending = @ \/ cells[i].tracked]
    /\ UNCHANGED <<ambient, browser, builder, call>>

RefetchSharedVersion(i) ==
    /\ cells[i].status = "live"
    /\ cells[i].kind # "builder"
    /\ refetch(cells[i]).requestVersion <= MaxVersion
    /\ cells[i].refetchCalls < MaxVersion
    /\ cells' = [j \in Insts |->
                   IF j = i THEN [refetch(cells[i]) EXCEPT !.refetchCalls = @ + 1]
                   ELSE [cells[j] EXCEPT !.requestVersion = @ + 1]]
    /\ UNCHANGED <<ambient, browser, builder, call>>

\* refetch() is exposed by every binding but the query builder, whose
\* refetchMeta is not part of the returned object.  refetchCalls counts the
\* invocations of refetch() on the binding.
Refetch(i) ==
    /\ cells[i].status = "live"
    /\ cells[i].kind # "builder"
    /\ refetch(cells[i]).requestVersion <= MaxVersion
    /\ cells[i].refetchCalls < MaxVersion
    /\ cells' = [cells EXCEPT ![i] = [refetch(@) EXCEPT !.refetchCalls = @ + 1]]
    /\ UNCHANGED <<ambient, browser, builder, call>>

\* run(q) of the lazy dry-run; runCalls counts the invocations of run() and
\* lastRunArg is the argument of the most recent one.
Run(i, q) ==
    /\ cells[i].status = "live"
    /\ cells[i].kind = "lazy"
    /\ cells[i].requestVersion < MaxVersion
    /\ cells' = [cells EXCEPT ![i] = [run(@, q) EXCEPT !.runCalls = @ + 1,
                                                      !.lastRunArg = q]]
    /\ UNCHANGED <<ambient, browser, builder, call>>

\* A remote call settles: its request is in flight.  The first flush of the
\* $effect is queued at construction, before any remote call can be made, so
\* it runs before the continuation of any awaited call.
CanSettle(i, v) ==
    /\ cells[i].status = "live"
    /\ v \in 1..Len(cells[i].reqs)
    /\ cells[i].reqs[v].st = "inflight"
    /\ cells[i].mounted \/ cells[i].kind = "lazy"

Resolve(i, v) ==
    /\ CanSettle(i, v)
    /\ cells' = [cells EXCEPT ![i] = onSuccess(@, v, Res(v))]
    /\ UNCHANGED <<ambient, browser, builder, call>>

Reject(i, v, e) ==
    /\ CanSettle(i, v)
    /\ cells' = [cells EXCEPT ![i] = onFailure(@, v, e)]
    /\ UNCHANGED <<ambient, browser, builder, call>>

Next ==
    \/ ProviderEffect
    \/ \E i \in Insts : Construct(i)
    \/ \E i \in Insts : Effect(i)
    \/ \E i \in Insts : \E q \in QuerySet : ChangeQuery(i, q)
    \/ \E i \in Insts : Refetch(i)
    \/ \E i \in Insts : \E q \in RunArgs : Run(i, q)
    \/ \E i \in Insts : \E v \in 1..MaxVersion : Resolve(i, v)
    \/ \E i \in Insts : \E v \in 1..MaxVersion : \E e \in Throwables(v) : Reject(i, v, e)

Spec == Init /\ [][Next]_vars

\* Two bindings constructed side by side under one provider, of the same or
\* of different kinds, sharing the provider's client.
PairConfigs ==
    {NewCell("query", FALSE, FALSE, FALSE, TRUE, Undefined, QMeasure),
     NewCell("meta", FALSE, FALSE, FALSE, FALSE, Undefined, QNull),
     NewCell("lazy", FALSE, FALSE, FALSE, FALSE, Undefined, QNull)}

PairInit ==
    /\ cells \in [1..2 -> PairConfigs]
    /\ ambient = Context("ambientA")
    /\ browser = TRUE
    /\ builder = createQueryBuilder(NoInitialQuery, Undefined)
    /\ call = NoCall

\* The two bindings together issue at most MaxVersion + 1 requests.
PairBudget == cells[1].requestVersion + cells[2].requestVersion <= MaxVersion + 1

PairNext ==
    \/ \E i \in Insts : Construct(i)
    \/ \E i \in Insts : Effect(i) /\ PairBudget'
    \/ \E i \in Insts : \E q \in {QMeasure, QTime} : ChangeQuery(i, q)
    \/ \E i \in Insts : Refetch(i) /\ PairBudget'
    \/ \E i \in Insts : \E q \in {QMeasure, QEmpty} : Run(i, q) /\ PairBudget'
    \/ \E i \in Insts : \E v \in 1..MaxVersion : Resolve(i, v)
    \/ \E i \in Insts : \E v \in 1..MaxVersion : Reject(i, v, StrV("boom"))

PairSpec == PairInit /\ [][PairNext]_vars

\* The remote call of request v of cell i settles, either way.
Settle(i, v) == Resolve(i, v) \/ \E e \in Throwables(v) : Reject(i, v, e)

\* Every issued remote call eventually settles, and the framework flushes
\* every pending $effect.
Fairness ==
    /\ \A i \in {1} : \A v \in 1..MaxVersion : WF_vars(Settle(i, v))
    /\ \A i \in {1} : WF_vars(Effect(i))

\* The bindings of a component rendered under a provider whose client is
\* installed, constructed without a client option.
FairInit ==
    /\ Init
    /\ ambient = Context("ambientA")
    /\ \A i \in Insts : cells[i].clientOverride = Undefined

FairSpec == FairInit /\ [][Next]_vars /\ Fairness

-----------------------------------------------------------------------------
(* Specification of the query builder draft: every draft operation applied *)
(* to a builder constructed from each of the initial queries.              *)

BuilderInit ==
    /\ cells = [i \in {1} |->
                  construct(NewCell("builder", FALSE, FALSE, FALSE, FALSE,
                                    ExplicitClient, QNull), NoContext)]
    /\ ambient = NoContext
    /\ browser = TRUE
    /\ builder \in {createQueryBuilder(o.initialQuery, o.initialChartType) :
                        o \in BuilderOptions}
    /\ call = NoCall

\* The eleven draft fields of a builder.
draft(b) ==
    [measures |-> b.measures, dimensions |-> b.dimensions, segments |-> b.segments,
     timeDimensions |-> b.timeDimensions, filters |-> b.filters, order |-> b.order,
     chartType |-> b.chartType, limit |-> b.limit, offset |-> b.offset,
     timezone |-> b.timezone, renewQuery |-> b.renewQuery]

\* One call of a draft operation whose result is b.
Applied(op, b) ==
    /\ builder.ops < MaxOps
    /\ builder' = [b EXCEPT !.ops = @ + 1, !.lastOp = op, !.restored = FALSE]
    /\ UNCHANGED <<cells, ambient, browser, call>>

AddMeasure(measure) == Applied("addMeasure", addMeasure(builder, measure))

RemoveMeasure(measure) == Applied("removeMeasure", removeMeasure(builder, measure))

UpdateMeasure(oldMeasure, newMeasure) == Applied("updateMeasure", updateMeasure(builder, oldMeasure, newMeasure))

SetMeasures(newMeasures) == Applied("setMeasures", setMeasures(builder, newMeasures))

AddDimension(dimension) == Applied("addDimension", addDimension(builder, dimension))

RemoveDimension(dimension) == Applied("removeDimension", removeDimension(builder, dimension))

UpdateDimension(oldDimension, newDimension) == Applied("updateDimension", updateDimension(builder, oldDimension, newDimension))

SetDimensions(newDimensions) == Applied("setDimensions", setDimensions(builder, newDimensions))

AddSegment(segment) == Applied("addSegment", addSegment(builder, segment))

RemoveSegment(segment) == Applied("removeSegment", removeSegment(builder, segment))

SetSegments(newSegments) == Applied("setSegments", setSegments(builder, newSegments))

AddTimeDimension(timeDimension) == Applied("addTimeDimension", addTimeDimension(builder, timeDimension))

RemoveTimeDimension(dimension) == Applied("removeTimeDimension", removeTimeDimension(builder, dimension))

UpdateTimeDimension(dimension, updates) == Applied("updateTimeDimension", updateTimeDimension(builder, dimension, updates))

SetTimeDimensions(newTimeDimensions) == Applied("setTimeDimensions", setTimeDimensions(builder, newTimeDimensions))

AddFilter(filter) == Applied("addFilter", addFilter(builder, filter))

RemoveFilter(index) == Applied("removeFilter", removeFilter(builder, index))

UpdateFilter(index, filter) == Applied("updateFilter", updateFilter(builder, index, filter))

SetFilters(newFilters) == Applied("setFilters", setFilters(builder, newFilters))

SetOrder(newOrder) == Applied("setOrder", setOrder(builder, newOrder))

SetChartType(newChartType) == Applied("setChartType", setChartType(builder, newChartType))

SetLimit(newLimit) == Applied("setLimit", setLimit(builder, newLimit))

SetOffset(newOffset) == Applied("setOffset", setOffset(builder, newOffset))

SetTimezone(newTimezone) == Applied("setTimezone", setTimezone(builder, newTimezone))

SetRenewQuery(newRenewQuery) == Applied("setRenewQuery", setRenewQuery(builder, newRenewQuery))

ResetRefetchesMeta ==
    /\ builder' = [reset(builder) EXCEPT !.ops = 0, !.lastOp = "reset",
                                         !.restored = (draft(builder) # builder.atConstruction)]
    /\ cells' = [i \in Insts |->
                   fetchMeta([cells[i] EXCEPT !.requestVersion = @ + 1],
                             cells[i].requestVersion + 1)]
    /\ UNCHANGED <<ambient, browser, call>>

Reset ==
    /\ builder' = [reset(builder) EXCEPT !.ops = 0, !.lastOp = "reset",
                                         !.restored = (draft(builder) # builder.atConstruction)]
    /\ UNCHANGED <<cells, ambient, browser, call>>

BuilderNext ==
    \/ \E measure \in Measures : AddMeasure(measure)
    \/ \E measure \in Measures : RemoveMeasure(measure)
    \/ \E oldMeasure \in Measures : \E newMeasure \in Measures : UpdateMeasure(oldMeasure, newMeasure)
    \/ \E newMeasures \in Lists(Measures) : SetMeasures(newMeasures)
    \/ \E dimension \in Dimensions : AddDimension(dimension)
    \/ \E dimension \in Dimensions : RemoveDimension(dimension)
    \/ \E oldDimension \in Dimensions : \E newDimension \in Dimensions : UpdateDimension(oldDimension, newDimension)
    \/ \E newDimensions \in Lists(Dimensions) : SetDimensions(newDimensions)
    \/ \E segment \in Segments : AddSegment(segment)
    \/ \E segment \in Segments : RemoveSegment(segment)
    \/ \E newSegments \in Lists(Segments) : SetSegments(newSegments)
    \/ \E timeDimension \in TimeDimensions : AddTimeDimension(timeDimension)
    \/ \E dimension \in TimeKeys : RemoveTimeDimension(dimension)
    \/ \E dimension \in TimeKeys : \E updates \in TimeUpdates : UpdateTimeDimension(dimension, updates)
    \/ \E newTimeDimensions \in Lists({TimeDimension(d, "day") : d \in TimeKeys}) : SetTimeDimensions(newTimeDimensions)
    \/ \E filter \in Filters : AddFilter(filter)
    \/ \E index \in 0..Len(builder.filters) : RemoveFilter(index)
    \/ \E index \in 0..Len(builder.filters) : \E filter \in Filters : UpdateFilter(index, filter)
    \/ \E newFilters \in Lists(Filters) : SetFilters(newFilters)
    \/ \E newOrder \in Lists(OrderItems) : SetOrder(newOrder)
    \/ \E newChartType \in ChartTypes : SetChartType(newChartType)
    \/ \E newLimit \in {UndefV, NumV(50)} : SetLimit(newLimit)
    \/ \E newOffset \in {UndefV, NumV(20)} : SetOffset(newOffset)
    \/ \E newTimezone \in {UndefV, StrV("UTC")} : SetTimezone(newTimezone)
    \/ \E newRenewQuery \in {BoolV(TRUE), BoolV(FALSE)} : SetRenewQuery(newRenewQuery)
    \/ Reset

BuilderSpec == BuilderInit /\ [][BuilderNext]_vars

-----------------------------------------------------------------------------
(* Specification of a whole query builder: the draft operations interleaved *)
(* with the $effect and the settlement of its metadata cell.               *)

BuilderMetaInit ==
    /\ cells \in {[i \in {1} |->
                     construct(NewCell("builder", FALSE, FALSE, initial, FALSE,
                                       ExplicitClient, QNull), NoContext)] :
                   initial \in BOOLEAN}
    /\ ambient = NoContext
    /\ browser \in BOOLEAN
    /\ builder \in {createQueryBuilder(o.initialQuery, o.initialChartType) :
                        o \in BuilderOptions}
    /\ call = NoCall

BuilderMetaNext ==
    \/ \E i \in Insts : Effect(i)
    \/ \E i \in Insts : \E v \in 1..MaxVersion : Resolve(i, v)
    \/ \E i \in Insts : \E v \in 1..MaxVersion : Reject(i, v, StrV("boom"))
    \/ AddMeasure("Orders.total")
    \/ RemoveMeasure("Orders.count")
    \/ UpdateMeasure("Orders.count", "Orders.total")
    \/ SetMeasures(<<"Orders.count", "Orders.total">>)
    \/ AddDimension("Orders.city")
    \/ RemoveDimension("Orders.status")
    \/ UpdateDimension("Orders.status", "Orders.city")
    \/ SetDimensions(<<>>)
    \/ AddSegment("Orders.open")
    \/ RemoveSegment("Orders.paid")
    \/ SetSegments(<<>>)
    \/ AddTimeDimension(TimeDimension("Orders.updatedAt", "day"))
    \/ RemoveTimeDimension("Orders.createdAt")
    \/ UpdateTimeDimension("Orders.createdAt", [granularity |-> "month"])
    \/ SetTimeDimensions(<<>>)
    \/ AddFilter(Filter("Orders.city", "notSet"))
    \/ RemoveFilter(0)
    \/ UpdateFilter(0, Filter("Orders.city", "notSet"))
    \/ SetFilters(<<>>)
    \/ SetOrder(<<<<"Orders.count", "desc">>>>)
    \/ SetChartType("pie")
    \/ SetLimit(NumV(50))
    \/ SetOffset(NumV(20))
    \/ SetTimezone(StrV("UTC"))
    \/ SetRenewQuery(BoolV(TRUE))
    \/ Reset

BuilderMetaSpec == BuilderMetaInit /\ [][BuilderMetaNext]_vars

-----------------------------------------------------------------------------
(* Specification of the library functions called directly.                 *)

UtilInit ==
    /\ cells = [i \in {1} |->
                  NewCell("lazy", FALSE, FALSE, FALSE, FALSE, ExplicitClient, QNull)]
    /\ ambient \in {NoContext, Context(JsNull)}
    /\ browser = TRUE
    /\ builder = createQueryBuilder(NoInitialQuery, Undefined)
    /\ call = NoCall

IsQueryPresent(query) ==
    /\ call' = Returned("isQueryPresent", query, isQueryPresent(query))
    /\ UNCHANGED <<cells, ambient, browser, builder>>

SetCubeClient(client) ==
    /\ ambient' = setCubeClient(client)
    /\ call' = Returned("setCubeClient", client, Undefined)
    /\ UNCHANGED <<cells, browser, builder>>

GetCubeClient ==
    /\ call' = IF getCubeClient(ambient).threw
               THEN Threw("getCubeClient", ambient)
               ELSE Returned("getCubeClient", ambient, getCubeClient(ambient).value)
    /\ UNCHANGED <<cells, ambient, browser, builder>>

TryGetCubeClient ==
    /\ call' = Returned("tryGetCubeClient", ambient, tryGetCubeClient(ambient))
    /\ UNCHANGED <<cells, ambient, browser, builder>>

\* The four $derived lists of a builder whose metadata is meta.
AvailableMembers(meta) ==
    /\ call' = Returned("availableMembers", meta,
                        [measures |-> availableMeasures(meta),
                         dimensions |-> availableDimensions(meta),
                         timeDimensions |-> availableTimeDimensions(meta),
                         segments |-> availableSegments(meta)])
    /\ UNCHANGED <<cells, ambient, browser, builder>>

UtilNext ==
    \/ \E query \in QueryArgs : IsQueryPresent(query)
    \/ \E meta \in Metas : AvailableMembers(meta)
    \/ \E client \in AmbientClients : SetCubeClient(client)
    \/ GetCubeClient
    \/ TryGetCubeClient

UtilSpec == UtilInit /\ [][UtilNext]_vars

-----------------------------------------------------------------------------
(* Properties.                                                             *)

Live(i) == cells[i].status = "live"

\* The entry of the most recently issued request of a cell with a request.
latest(c) == c.reqs[Len(c.reqs)]

\* A remote call was made for the request (it was not skipped as not present).
called(r) == r.st # "skipped"

IdleTriple(c) == c.value = NullV /\ c.loading = FALSE /\ c.error = NullV

\* The request log has one entry per version.
LogMatchesVersion == \A i \in Insts : Len(cells[i].reqs) = cells[i].requestVersion

\* C1: stale-response suppression.  The result or the thrown Error of a request
\* that settled after a newer request had been issued is never in value/error,
\* and whenever the most recently issued request of a cell has settled,
\* value/error hold that request's outcome (its result, its normalized error,
\* or null/null when it was skipped), in whatever order the requests settled.
C1_LatestOutcomeWins ==
    \A i \in Insts :
        LET c == cells[i] IN
        (Live(i) /\ Len(c.reqs) >= 1) =>
            LET b == latest(c) IN
            /\ \A v \in DOMAIN c.reqs :
                  c.reqs[v].st = "stale" =>
                      /\ c.value # Res(v)
                      /\ ~(c.error.t = "Error" /\ c.error.n = v)
            /\ b.st = "ok" => (c.value = Res(Len(c.reqs)) /\ c.error = NullV)
            /\ b.st = "fail" => (c.value = NullV /\ c.error = normalizeError(b.out))
            /\ b.st = "skipped" => (c.value = NullV /\ c.error = NullV)

\* C1 witness: of two requests, the earlier one settled after the later one
\* had been issued, and the later one succeeded.
C1_Witness ==
    \E i \in Insts :
        /\ Len(cells[i].reqs) = 2
        /\ cells[i].reqs[1].st = "stale"
        /\ cells[i].reqs[2].st = "ok"
        /\ cells[i].value = Res(2)

\* C2: a step in which a request settles whose captured version differs from
\* the cell's current version leaves value, loading and error unchanged.
C2_StaleSettlementNoEffect ==
    [][\A i \in Insts : \A v \in DOMAIN cells[i].reqs :
          ( /\ cells[i].reqs[v].st = "inflight"
            /\ cells'[i].reqs[v].st # "inflight"
            /\ v # cells[i].requestVersion )
          => /\ cells'[i].value = cells[i].value
             /\ cells'[i].loading = cells[i].loading
             /\ cells'[i].error = cells[i].error]_vars

\* C2 witness: a request has settled stale while the newer request is still
\* loading and the value of before is still there.
C2_Witness ==
    \E i \in Insts :
        /\ Len(cells[i].reqs) = 2
        /\ cells[i].reqs[1].st = "stale"
        /\ cells[i].reqs[2].st = "inflight"
        /\ cells[i].loading
        /\ cells[i].value = Seed

\* C3: value and error are never both non-null, in any state of any cell.
C3_ValueErrorExclusive ==
    \A i \in Insts : ~(cells[i].value # NullV /\ cells[i].error # NullV)

\* C3 witness: a cell seeded with initialData/initialMeta whose latest request
\* failed, so that the error is set (and the seed gone).
C3_Witness ==
    \E i \in Insts :
        /\ cells[i].initial
        /\ Len(cells[i].reqs) >= 1
        /\ latest(cells[i]).st = "fail"
        /\ cells[i].error # NullV

\* C4: every call of load, sql or dryRun was made with a query for which
\* isQueryPresent is true.
C4_CallsOnlyPresentQueries ==
    \A i \in Insts : \A v \in DOMAIN cells[i].reqs :
        LET r == cells[i].reqs[v] IN
        (called(r) /\ r.op \in {"load", "sql", "dryRun"}) => isQueryPresent(r.q)

\* C4 witness: a cell that was triggered once with a query that is not present
\* (no call made) and once with a present one (call made).
C4_Witness ==
    \E i \in Insts :
        /\ Len(cells[i].reqs) = 2
        /\ cells[i].reqs[1].st = "skipped"
        /\ ~isQueryPresent(cells[i].reqs[1].q)
        /\ called(cells[i].reqs[2])

\* C5 (as claimed): in createCubeQuery, createCubeSql and createDryRun, once a
\* trigger has found the current query not present and no request has been
\* issued since, the cell is {value: null, loading: false, error: null}.
C5_AbsentTriggerSettlesIdle ==
    \A i \in Insts :
        (Live(i) /\ cells[i].kind \in QueryKinds /\ cells[i].absentTrigger)
            => IdleTriple(cells[i])

\* C6 (as claimed): a createCubeQuery binding constructed with skip = true never
\* calls client.load, and once activated its state is the idle triple.
C6_SkipNeverLoads ==
    \A i \in Insts :
        (Live(i) /\ cells[i].kind = "query" /\ cells[i].skip) =>
            /\ \A v \in DOMAIN cells[i].reqs : ~called(cells[i].reqs[v])
            /\ cells[i].mounted => IdleTriple(cells[i])

\* C7: a step in which the latest request of a cell fails sets value to null
\* and error to an Error: the thrown value itself when it is an Error,
\* otherwise a new Error whose message is the string form of the thrown value.
C7_FailureNormalized ==
    [][\A i \in Insts : \A v \in DOMAIN cells[i].reqs :
          ( /\ cells[i].reqs[v].st = "inflight"
            /\ v = cells[i].requestVersion
            /\ cells'[i].reqs[v].st = "fail" )
          => LET e == cells'[i].reqs[v].out IN
             /\ cells'[i].value = NullV
             /\ cells'[i].error.t = "Error"
             /\ e.t = "Error" => cells'[i].error = e
             /\ e.t # "Error" => ( /\ cells'[i].error.n = 0
                                   /\ cells'[i].error.s = String(e) )
             /\ e = StrV("boom") => cells'[i].error.s = "boom"]_vars

\* C7 witness: a seeded cell whose latest request rejected with the string
\* "boom": the seed is gone and error is a new Error with message "boom".
C7_Witness ==
    \E i \in Insts :
        /\ cells[i].initial
        /\ Len(cells[i].reqs) >= 1
        /\ latest(cells[i]).st = "fail"
        /\ latest(cells[i]).out = StrV("boom")
        /\ cells[i].value = NullV
        /\ cells[i].error = ErrorObj(0, "boom")

\* C8: the promise returned for a request never rejects; it is resolved as soon
\* as the request is skipped or its remote call has settled (successfully,
\* with a failure, or stale), and in the step that resolves the promise of a
\* failed latest request the error field holds the normalized failure.
C8_PromiseAlwaysResolves ==
    [][\A i \in Insts : \A v \in DOMAIN cells'[i].reqs :
          LET r == cells'[i].reqs[v] IN
          /\ r.promise # "rejected"
          /\ r.st # "inflight" => r.promise = "resolved"
          /\ ( /\ v \in DOMAIN cells[i].reqs
               /\ cells[i].reqs[v].promise = "pending"
               /\ r.promise # "pending"
               /\ r.st = "fail" )
             => cells'[i].error = normalizeError(r.out)]_vars

\* C8 witness: the remote call of a request failed and the request's promise
\* is resolved.
C8_Witness ==
    \E i \in Insts : \E v \in DOMAIN cells[i].reqs :
        /\ cells[i].reqs[v].st = "fail"
        /\ cells[i].reqs[v].promise = "resolved"
        /\ cells[i].error # NullV

\* C9: constructing a binding when neither the client option nor the ambient
\* context yields a client throws: the step creates no state, schedules no
\* effect, records no error, and nothing ever happens on the binding afterwards.
C9_NoClientThrowsAtConstruction ==
    [][\A i \in Insts :
          /\ ( /\ cells[i].status = "unconstructed"
               /\ cells'[i].status # "unconstructed"
               /\ cells[i].clientOverride = Undefined
               /\ (~ambient.hasContext \/ ambient.current = JsNull) )
             => cells'[i] = [cells[i] EXCEPT !.status = "threw"]
          /\ cells'[i].status = "threw"
             => /\ cells'[i].reqs = <<>>
                /\ cells'[i].error = NullV
                /\ cells'[i].value = NullV
                /\ ~cells'[i].effectPending
          /\ cells[i].status = "threw" => cells'[i] = cells[i]]_vars

\* C9 witness: a binding whose constructor threw, in a context without client.
C9_Witness ==
    \E i \in Insts :
        /\ cells[i].status = "threw"
        /\ ambient = Context(JsNull)

\* C10: when a client option was passed, every remote call of the binding goes
\* to that client, also when an ambient client exists.
C10_ExplicitClientWins ==
    \A i \in Insts :
        (Live(i) /\ cells[i].clientOverride = ExplicitClient) =>
            /\ cells[i].client = ExplicitClient
            /\ \A v \in DOMAIN cells[i].reqs :
                  called(cells[i].reqs[v]) => cells[i].reqs[v].client = ExplicitClient

\* C10 witness: a binding with a client option, constructed while the ambient
\* context held a client, has made an auto-triggered call and a refetch call.
C10_Witness ==
    \E i \in Insts :
        /\ cells[i].clientOverride = ExplicitClient
        /\ ambient.current \in AmbientClients
        /\ cells[i].mounted
        /\ Len(cells[i].reqs) = 2
        /\ called(cells[i].reqs[1])
        /\ called(cells[i].reqs[2])
        /\ cells[i].reqs[2].client = ExplicitClient

\* The number of remote calls a cell has made.
Calls(c) == Cardinality({v \in DOMAIN c.reqs : called(c.reqs[v])})

\* A binding with a static query that is present (metadata has no query).
StaticPresent(c) ==
    \/ c.kind = "meta"
    \/ c.kind \in QueryKinds /\ ~c.isFn /\ isQueryPresent(c.query)

\* C11 (as claimed): in the client environment, without seed and with a present
\* static query, createCubeQuery, createCubeMeta, createCubeSql and createDryRun
\* have made exactly 1 + n remote calls after the initial activation and n
\* calls of refetch().
C11_RefetchCount ==
    \A i \in Insts :
        LET c == cells[i] IN
        (Live(i) /\ browser /\ ~c.initial /\ StaticPresent(c) /\ c.mounted)
            => Calls(c) = 1 + c.refetchCalls

\* C11 (amended): the same when skip is not set; the count is n before the
\* initial activation and 1 + n after it.
C11_RefetchCountNoSkip ==
    \A i \in Insts :
        LET c == cells[i] IN
        (Live(i) /\ browser /\ ~c.initial /\ ~c.skip /\ StaticPresent(c))
            => Calls(c) = (IF c.mounted THEN 1 ELSE 0) + c.refetchCalls

\* C11 witness: after the initial activation and one refetch() the remote
\* operation has been called twice.
C11_Witness ==
    \E i \in Insts :
        LET c == cells[i] IN
        /\ Live(i) /\ browser /\ ~c.initial /\ ~c.skip /\ StaticPresent(c)
        /\ c.mounted
        /\ c.refetchCalls = 1
        /\ Calls(c) = 2

\* The step is a call of refetch() on cell i.
RefetchStep(i) == cells'[i].refetchCalls = cells[i].refetchCalls + 1

EffectStep(i) == cells[i].effectPending /\ ~cells'[i].effectPending

\* The auto-trigger step left value, loading, error, the version and the
\* requests of cell i as they were.
AutoTriggerIdle(i) ==
    /\ cells'[i].value = cells[i].value
    /\ cells'[i].loading = cells[i].loading
    /\ cells'[i].error = cells[i].error
    /\ cells'[i].requestVersion = cells[i].requestVersion
    /\ cells'[i].reqs = cells[i].reqs

\* C13 (as claimed): outside the client environment with ssr unset or false no
\* auto-trigger of any binding issues a remote call or changes value, loading,
\* error or the version; with ssr = true it runs as in the client environment.
C13_EnvironmentGate ==
    [][\A i \in Insts :
          EffectStep(i) =>
              /\ (~browser /\ ~cells[i].ssr) => AutoTriggerIdle(i)
              /\ cells[i].ssr => cells'[i] = effect(cells[i], TRUE)]_vars

\* C13 (amended): the same for bindings on which skip is not set; a binding
\* with skip = true is reset to the idle triple by every auto-trigger.
C13_EnvironmentGateNoSkip ==
    [][\A i \in Insts :
          EffectStep(i) =>
              /\ (~browser /\ ~cells[i].ssr /\ ~cells[i].skip) => AutoTriggerIdle(i)
              /\ (~browser /\ ~cells[i].ssr /\ cells[i].skip)
                    => cells'[i].requestVersion = cells[i].requestVersion
                       /\ cells'[i].reqs = cells[i].reqs
                       /\ IdleTriple(cells'[i])
              /\ cells[i].ssr => cells'[i] = effect(cells[i], TRUE)]_vars

\* C13 witness: outside the client environment, a binding with ssr = false,
\* no seed and a present query was activated and has issued no request.
C13_Witness ==
    \E i \in Insts :
        LET c == cells[i] IN
        /\ Live(i) /\ ~browser /\ ~c.ssr /\ ~c.skip /\ ~c.initial
        /\ c.kind = "meta" \/ isQueryPresent(c.query)
        /\ c.mounted
        /\ c.reqs = <<>>
        /\ c.requestVersion = 0

ReactiveBinding(c) ==
    c.status = "live" /\ c.kind \in QueryKinds /\ c.isFn /\ browser /\ ~c.skip

\* The latest request of the cell is a remote call carrying the current query.
LatestCarriesQuery(c) ==
    /\ Len(c.reqs) >= 1
    /\ called(latest(c))
    /\ latest(c).q = c.query

\* A binding over a static query never has an auto-trigger scheduled after its
\* initial activation, and at most one of its requests was issued by one.
StaticTriggersOnce(c) ==
    (c.status = "live" /\ c.kind \in QueryKinds /\ ~c.isFn) =>
        /\ c.mounted => ~c.effectPending
        /\ Len(c.reqs) - c.refetchCalls <= (IF c.mounted THEN 1 ELSE 0)

C16_RefetchDisablesSeedSkip ==
    [][\A i \in Insts :
          ( /\ ReactiveBinding(cells[i]) /\ cells[i].initial
            /\ cells[i].refetchCalls >= 1
            /\ cells'[i].query # cells[i].query
            /\ isQueryPresent(cells'[i].query) )
          => cells'[i].effectPending]_vars

\* The step is a call of run() on cell i.
RunStep(i) == cells'[i].runCalls = cells[i].runCalls + 1

C18_LazyRefetchNoOp ==
    [][\A i \in Insts :
          (cells[i].kind = "lazy" /\ RefetchStep(i) /\ cells[i].runCalls = 0) =>
              /\ cells'[i].reqs = cells[i].reqs
              /\ cells'[i].value = cells[i].value
              /\ cells'[i].loading = cells[i].loading
              /\ cells'[i].error = cells[i].error
              /\ cells'[i].requestVersion = cells[i].requestVersion
              /\ cells'[i].lastQuery = cells[i].lastQuery
              /\ cells'[i].noopRefetch]_vars

\* C18 witness: refetch() was called on a lazy dry-run that has never run.
C18_Witness ==
    \E i \in Insts :
        LET c == cells[i] IN
        /\ Live(i) /\ c.kind = "lazy"
        /\ c.refetchCalls >= 1 /\ c.runCalls = 0
        /\ c.noopRefetch
        /\ c.requestVersion = 0 /\ c.reqs = <<>>
        /\ IdleTriple(c)

\* The set of items of a list.
Range(xs) == {xs[j] : j \in DOMAIN xs}

\* The list after adding x with set semantics.
AddedOnce(xs, x) == IF x \in Range(xs) THEN xs ELSE xs \o <<x>>

\* C19: addMeasure, addDimension and addSegment leave the draft unchanged when
\* the value is already in the list and otherwise append it at the end;
\* addTimeDimension leaves the draft unchanged when an entry with the same
\* dimension key exists (and otherwise appends the entry); addFilter always
\* appends, so the filter list grows by one on every call.  No add operation
\* changes another draft field.  Stated for every step that is one of these
\* calls, on every reachable draft.
C19_AddIdempotent ==
    [][LET b == builder
           d == builder'
       IN /\ d.lastOp = "addMeasure" =>
                \E m \in Measures : draft(d) = [draft(b) EXCEPT !.measures = AddedOnce(@, m)]
          /\ d.lastOp = "addDimension" =>
                \E x \in Dimensions : draft(d) = [draft(b) EXCEPT !.dimensions = AddedOnce(@, x)]
          /\ d.lastOp = "addSegment" =>
                \E sg \in Segments : draft(d) = [draft(b) EXCEPT !.segments = AddedOnce(@, sg)]
          /\ d.lastOp = "addTimeDimension" =>
                \E td \in TimeDimensions :
                    draft(d) =
                        IF td.dimension \in {e.dimension : e \in Range(b.timeDimensions)}
                        THEN draft(b)
                        ELSE [draft(b) EXCEPT !.timeDimensions = @ \o <<td>>]
          /\ d.lastOp = "addFilter" =>
                /\ Len(d.filters) = Len(b.filters) + 1
                /\ \E f \in Filters : draft(d) = [draft(b) EXCEPT !.filters = @ \o <<f>>]]_vars

\* C19 witness: on a builder seeded with one dimension, one time dimension
\* and one filter, that filter was added again (the list holds it twice), and
\* adding the seeded dimension, or a time dimension with the seeded key and
\* another granularity, would change nothing.
C19_Witness ==
    /\ builder.lastOp = "addFilter"
    /\ builder.ops = 1
    /\ builder.filters = builder.initialFilters \o builder.initialFilters
    /\ Len(builder.filters) = 2
    /\ builder.dimensions = <<"Orders.status">>
    /\ addDimension(builder, "Orders.status") = builder
    /\ addTimeDimension(builder, TimeDimension("Orders.createdAt", "month")) = builder

\* C20: reset() makes the eleven draft fields equal to their values at
\* construction: what the seed query holds, [] for an absent list, undefined
\* for an absent or null limit, offset or timezone, false for an absent
\* renewQuery, and the initial chart type ('line' when not given); the values
\* captured at construction never change, and a second reset() changes nothing.
C20_ResetLaw ==
    [][LET b == builder
           d == builder'
           q == b.initialQuery
           list(field) == IF q.t = "object" /\ q[field].t = "array" THEN q[field].items ELSE <<>>
           scalar(field, dflt) ==
               IF q.t = "object" /\ q[field].t \notin {"undefined", "null"}
               THEN q[field] ELSE dflt
       IN /\ d.atConstruction = b.atConstruction
          /\ d.initialQuery = q
          /\ b.atConstruction.measures = list("measures")
          /\ b.atConstruction.dimensions = list("dimensions")
          /\ b.atConstruction.segments = list("segments")
          /\ b.atConstruction.timeDimensions = list("timeDimensions")
          /\ b.atConstruction.filters = list("filters")
          /\ \A j \in DOMAIN b.atConstruction.order :
                b.atConstruction.order[j] \in Range(q.order.items)
          /\ b.atConstruction.limit = scalar("limit", UndefV)
          /\ b.atConstruction.offset = scalar("offset", UndefV)
          /\ b.atConstruction.timezone = scalar("timezone", UndefV)
          /\ b.atConstruction.renewQuery = scalar("renewQuery", BoolV(FALSE))
          /\ b.atConstruction.chartType =
                (IF b.initialChartTypeOption = Undefined THEN "line"
                 ELSE b.initialChartTypeOption)
          /\ draft(reset(b)) = b.atConstruction
          /\ reset(reset(b)) = reset(b)
          /\ d.lastOp = "reset" => draft(d) = b.atConstruction]_vars

\* C20 witness: a builder seeded with a query and chart type 'bar' was reset
\* after operations had changed its draft, and holds its construction values.
C20_Witness ==
    /\ builder.lastOp = "reset"
    /\ builder.restored
    /\ builder.initialQuery.t = "object"
    /\ builder.initialChartTypeOption = "bar"
    /\ builder.measures = <<"Orders.count">>
    /\ builder.chartType = "bar"
    /\ builder.limit = NumV(10)
    /\ builder.offset = UndefV
    /\ draft(builder) = builder.atConstruction

\* C21: in every reachable builder state the derived query has the key of a
\* list field exactly when the list is not empty, the key of limit, offset or
\* timezone exactly when the field is not undefined (0 included), the key
\* renewQuery exactly when renewQuery is true, never the key chartType or any
\* other key, and under each key the value of the draft field.
C21_DerivedQueryMinimal ==
    LET b == builder
        q == derivedQuery(b)
        has(k) == k \in DOMAIN q
    IN /\ has("measures") <=> b.measures # <<>>
       /\ has("dimensions") <=> b.dimensions # <<>>
       /\ has("segments") <=> b.segments # <<>>
       /\ has("timeDimensions") <=> b.timeDimensions # <<>>
       /\ has("filters") <=> b.filters # <<>>
       /\ has("order") <=> b.order # <<>>
       /\ has("limit") <=> b.limit # UndefV
       /\ has("offset") <=> b.offset # UndefV
       /\ has("timezone") <=> b.timezone # UndefV
       /\ has("renewQuery") <=> b.renewQuery = BoolV(TRUE)
       /\ DOMAIN q \subseteq {"measures", "dimensions", "segments", "timeDimensions",
                               "filters", "order", "limit", "offset", "timezone",
                               "renewQuery"}
       /\ ~has("chartType")
       /\ \A k \in DOMAIN q : q[k] = draft(b)[k]

\* C21 witness: after setRenewQuery(false) on a builder seeded with offset 0,
\* no measures and no limit, the derived query has offset (0) and dimensions
\* but neither renewQuery, measures nor limit, while chartType was changed.
C21_Witness ==
    /\ builder.lastOp = "setRenewQuery"
    /\ builder.renewQuery = BoolV(FALSE)
    /\ builder.offset = NumV(0)
    /\ builder.chartType = "pie"
    /\ DOMAIN derivedQuery(builder) =
          {"dimensions", "segments", "timeDimensions", "filters", "order",
           "offset", "timezone"}
    /\ derivedQuery(builder).offset = NumV(0)

\* C22: isQueryPresent(q) returns false for null and undefined and otherwise
\* true exactly when measures, dimensions or timeDimensions is an array of
\* length > 0; a string in one of these fields counts as absent, filters and
\* limit do not contribute, and no call throws.
C22_IsQueryPresent ==
    call.fn = "isQueryPresent" =>
        LET q == call.arg
            nonEmptyArray(f) == f \in {Arr(<<"Orders.count">>)}
        IN /\ ~call.threw
           /\ call.out \in BOOLEAN
           /\ q.t \in {"null", "undefined"} => call.out = FALSE
           /\ q.t = "object" =>
                 (call.out <=> \/ nonEmptyArray(q.measures)
                               \/ nonEmptyArray(q.dimensions)
                               \/ nonEmptyArray(q.timeDimensions))
           /\ q.t = "object" =>
                 call.out = isQueryPresent(QueryArg(q.measures, q.dimensions,
                                                    q.timeDimensions, Undef, UndefV))

\* C22 witness: isQueryPresent returned false for a query whose measures is
\* a string, whose dimensions is an empty array and which has filters and a
\* limit.
C22_Witness ==
    /\ call.fn = "isQueryPresent"
    /\ call.arg = QueryArg(StrField("Orders.count"), Arr(<<>>), Undef,
                           Arr(<<"Orders.status">>), NumV(10))
    /\ call.out = FALSE
    /\ ~call.threw

\* A client is installed in the context.
Installed(ctx) == ctx.hasContext /\ ctx.current \in AmbientClients

\* C23: right after setCubeClient(c) the context holds c, and getCubeClient()
\* and tryGetCubeClient() would both return c; a call of getCubeClient()
\* returns the installed client and throws when there is no context or its
\* current is null; a call of tryGetCubeClient() never throws and returns the
\* installed client, or undefined when none is installed.
C23_AmbientRegistry ==
    /\ call.fn = "setCubeClient" =>
          /\ ambient = Context(call.arg)
          /\ getCubeClient(ambient) = [threw |-> FALSE, value |-> call.arg]
          /\ tryGetCubeClient(ambient) = call.arg
    /\ call.fn = "getCubeClient" =>
          /\ Installed(call.arg) => (~call.threw /\ call.out = call.arg.current)
          /\ ~Installed(call.arg) => call.threw
    /\ call.fn = "tryGetCubeClient" =>
          /\ ~call.threw
          /\ Installed(call.arg) => call.out = call.arg.current
          /\ ~Installed(call.arg) => call.out = Undefined

\* C23 witness: getCubeClient() threw in a context whose current is null.
C23_Witness ==
    /\ call.fn = "getCubeClient"
    /\ call.arg = Context(JsNull)
    /\ call.threw
    /\ tryGetCubeClient(ambient) = Undefined

\* C24: a binding constructed while CubeProvider's context still holds
\* current = null (the provider's initial render, before its $effect has run)
\* does not throw.
C24_ProviderDescendantResolves ==
    [][\A i \in Insts :
          (/\ ambient = Context(JsNull)
           /\ cells[i].status = "unconstructed"
           /\ cells'[i].status # "unconstructed")
          => cells'[i].status = "live"]_vars

\* The step appends a request to the cell's log.
IssueStep(i) == Len(cells'[i].reqs) = Len(cells[i].reqs) + 1

\* C25: requestVersion is 0 until something is issued, never decreases, grows
\* by exactly 1 in every $effect run that issues a request, every refetch() of
\* a non-lazy binding and every run(); an $effect run that issues nothing,
\* a settlement and every other step leave it unchanged, and every issued
\* request captures the new version, which no earlier request holds.
C25_VersionSteps ==
    [][\A i \in Insts :
          LET c == cells[i]
              d == cells'[i]
          IN /\ c.status = "unconstructed" => c.requestVersion = 0 /\ d.requestVersion = 0
             /\ d.requestVersion >= c.requestVersion
             /\ EffectStep(i) /\ IssueStep(i) => d.requestVersion = c.requestVersion + 1
             /\ EffectStep(i) /\ ~IssueStep(i) => d.requestVersion = c.requestVersion
             /\ RefetchStep(i) /\ c.kind # "lazy" => d.requestVersion = c.requestVersion + 1
             /\ RunStep(i) => d.requestVersion = c.requestVersion + 1
             /\ ~EffectStep(i) /\ ~RefetchStep(i) /\ ~RunStep(i)
                   => d.requestVersion = c.requestVersion
             /\ IssueStep(i) => /\ d.requestVersion = c.requestVersion + 1
                                /\ Len(d.reqs) = d.requestVersion
                                /\ Len(c.reqs) = c.requestVersion]_vars

\* C25 witness: a cell whose $effect issued version 1 and whose refetch()
\* issued version 2, the first call having settled after the second was issued.
C25_Witness ==
    \E i \in Insts :
        /\ cells[i].kind = "sql"
        /\ cells[i].requestVersion = 2
        /\ cells[i].refetchCalls = 1
        /\ cells[i].reqs[1].st = "stale"
        /\ cells[i].reqs[2].st = "inflight"

\* The step settles the cell's latest request.
SettleLatestStep(i) ==
    /\ cells[i].requestVersion \in DOMAIN cells[i].reqs
    /\ cells[i].reqs[cells[i].requestVersion].st = "inflight"
    /\ cells'[i].reqs[cells[i].requestVersion].st \in {"ok", "fail"}

\* C26: a step that issues a remote call sets loading = true and error = null
\* and keeps the value, with the call still unsettled; the value of a live
\* cell changes only when its latest request settles (to the result on
\* success, to null on failure) or to null when a trigger is skipped.
C26_IssueKeepsValue ==
    [][\A i \in Insts :
          LET c == cells[i]
              d == cells'[i]
          IN /\ (IssueStep(i) /\ called(latest(d)))
                   => /\ d.loading
                      /\ d.error = NullV
                      /\ d.value = c.value
                      /\ latest(d).st = "inflight"
             /\ (c.status = "live" /\ d.value # c.value)
                   => \/ /\ SettleLatestStep(i)
                         /\ latest(d).st = "ok" => d.value = latest(d).out
                         /\ latest(d).st = "fail" => d.value = NullV
                      \/ /\ d.value = NullV
                         /\ \/ EffectStep(i) /\ c.skip
                            \/ IssueStep(i) /\ latest(d).st = "skipped"]_vars

\* C26 witness: a second request is in flight while the value is still the
\* result of the first.
C26_Witness ==
    \E i \in Insts :
        /\ cells[i].kind = "query"
        /\ cells[i].requestVersion = 2
        /\ latest(cells[i]).st = "inflight"
        /\ cells[i].loading
        /\ cells[i].error = NullV
        /\ cells[i].value = Res(1)

\* C27: a live cell is loading exactly when its latest request is in flight.
C27_LoadingIffLatestInFlight ==
    \A i \in Insts :
        Live(i) =>
            (cells[i].loading <=>
                (cells[i].reqs # <<>> /\ latest(cells[i]).st = "inflight"))

\* The state of a cell is the outcome of its latest request.
ShowsLatestOutcome(c) ==
    /\ ~c.loading
    /\ c.reqs # <<>> =>
          /\ latest(c).st \in {"ok", "fail", "skipped"}
          /\ latest(c).st = "ok" => c.value = latest(c).out /\ c.error = NullV
          /\ latest(c).st = "fail" =>
                c.value = NullV /\ c.error = normalizeError(latest(c).out)
          /\ latest(c).st = "skipped" => IdleTriple(c)

\* C28: when every remote call settles, a live cell with no $effect run
\* outstanding eventually stays at loading = false showing the outcome of the
\* last issued request (triggers are finitely many: at most MaxVersion).
C28_EventuallySettled ==
    <>[](\A i \in Insts :
            (Live(i) /\ ~cells[i].effectPending) => ShowsLatestOutcome(cells[i]))

\* C28 witness: the second of two requests failed after the first had
\* succeeded, and the cell shows the normalized error.
C28_Witness ==
    \E i \in Insts :
        /\ Live(i)
        /\ cells[i].requestVersion = 2
        /\ latest(cells[i]).st = "fail"
        /\ cells[i].reqs[1].st = "past"
        /\ ShowsLatestOutcome(cells[i])

\* C29: loading of a live cell goes from true to false only in a step that
\* settles the cell's latest request or in a trigger (the $effect taking its
\* skip branch, or a refetch() / run() whose query is absent); the
\* settlement of an earlier call and every other step keep it true.
C29_LoadingClearedOnlyBySettlementOrTrigger ==
    [][\A i \in Insts :
          (Live(i) /\ cells[i].loading /\ ~cells'[i].loading)
          => \/ SettleLatestStep(i)
             \/ EffectStep(i) /\ cells[i].skip
             \/ /\ RefetchStep(i) \/ RunStep(i)
                /\ IssueStep(i)
                /\ latest(cells'[i]).st = "skipped"]_vars

\* C29 witness: an earlier call has settled while the latest one is still
\* in flight, and the cell is still loading.
C29_Witness ==
    \E i \in Insts :
        /\ cells[i].kind = "dryRun"
        /\ cells[i].reqs # <<>>
        /\ latest(cells[i]).st = "inflight"
        /\ cells[i].reqs[1].st = "stale"
        /\ cells[i].loading

\* C30: a step that changes one binding instance leaves value, loading,
\* error and requestVersion of every other instance unchanged.
C30_CellsIndependent ==
    [][\A i \in Insts : \A j \in Insts \ {i} :
          cells'[i] # cells[i]
          => /\ cells'[j].value = cells[j].value
             /\ cells'[j].loading = cells[j].loading
             /\ cells'[j].error = cells[j].error
             /\ cells'[j].requestVersion = cells[j].requestVersion]_vars

\* C30 witness: two query bindings sharing one client, the first with its
\* second request in flight, the second showing the result of its first.
C30_Witness ==
    /\ Insts = {1, 2}
    /\ cells[1].kind = "query" /\ cells[2].kind = "query"
    /\ Live(1) /\ Live(2)
    /\ cells[1].client = cells[2].client
    /\ cells[1].requestVersion = 2 /\ cells[1].loading
    /\ cells[2].requestVersion = 1 /\ ~cells[2].loading
    /\ cells[2].value = Res(1)

\* The step settles some in-flight request of the cell.
SettleStep(i) ==
    \E v \in DOMAIN cells[i].reqs :
        /\ cells[i].reqs[v].st = "inflight"
        /\ v \in DOMAIN cells'[i].reqs
        /\ cells'[i].reqs[v].st # "inflight"

\* The query refetch() of the cell would send.
RefetchQuery(c) == IF c.kind = "lazy" THEN c.lastQuery ELSE getQuery(c)

\* C31: refetch() of a query binding whose current query is not present
\* (also while an earlier call is in flight) leaves the idle triple at once
\* and issues no remote call, and the settlement of an earlier call after
\* that leaves value, loading and error as they are.
C31_RefetchAbsentSettlesIdle ==
    [][\A i \in Insts :
          LET c == cells[i]
              d == cells'[i]
          IN /\ (/\ RefetchStep(i)
                 /\ c.kind \in QueryKinds \cup {"lazy"}
                 /\ RefetchQuery(c).t # "null"
                 /\ ~isQueryPresent(RefetchQuery(c)))
                => /\ IdleTriple(d)
                   /\ IssueStep(i)
                   /\ latest(d).st = "skipped"
                   /\ Calls(d) = Calls(c)
             /\ (SettleStep(i) /\ latest(c).st = "skipped")
                => /\ IdleTriple(c) => IdleTriple(d)
                   /\ d.value = c.value /\ d.loading = c.loading /\ d.error = c.error]_vars

\* C31 witness: the first call settled after a refetch() with an absent
\* query, and the cell is idle.
C31_Witness ==
    \E i \in Insts :
        /\ cells[i].kind = "query"
        /\ cells[i].refetchCalls = 1
        /\ Len(cells[i].reqs) = 2
        /\ cells[i].reqs[1].st = "stale"
        /\ cells[i].reqs[2].st = "skipped"
        /\ IdleTriple(cells[i])

\* C32: every refetch() and every $effect run of a binding given a query
\* function that issues a request sends the value the function has at that
\* moment.
C32_FunctionReevaluated ==
    [][\A i \in Insts :
          LET c == cells[i]
              d == cells'[i]
          IN (/\ c.kind \in QueryKinds
              /\ c.isFn
              /\ RefetchStep(i) \/ (EffectStep(i) /\ IssueStep(i)))
             => /\ IssueStep(i)
                /\ latest(d).q = c.query
                /\ isQueryPresent(c.query) => latest(d).st = "inflight"]_vars

\* C32 witness: the query function's value changed after the first request
\* and refetch() sent the new value before the $effect re-ran.
C32_Witness ==
    \E i \in Insts :
        /\ cells[i].kind = "sql"
        /\ cells[i].isFn
        /\ cells[i].mounted /\ cells[i].effectPending
        /\ cells[i].refetchCalls = 1
        /\ Len(cells[i].reqs) = 2
        /\ cells[i].reqs[1].q = QMeasure
        /\ cells[i].reqs[2].q = QTime
        /\ cells[i].query = QTime

\* xs without every element that satisfies Hit, the others in their order.
Without(xs, Hit(_)) ==
    LET kept == SelectSeq([j \in 1..Len(xs) |-> j], LAMBDA j : ~Hit(xs[j]))
    IN [k \in 1..Len(kept) |-> xs[kept[k]]]

\* xs without the element at the 0-based index, xs itself when out of range.
WithoutIndex(xs, index) ==
    IF index + 1 \in DOMAIN xs
    THEN SubSeq(xs, 1, index) \o SubSeq(xs, index + 2, Len(xs))
    ELSE xs

\* C33: on every reachable draft, removeMeasure / removeDimension /
\* removeSegment(v) yields the list without every occurrence of v, the rest
\* in order; removeTimeDimension(d) the list without every entry of key d;
\* removeFilter(i) the list without the element at index i, unchanged when i
\* is out of range; an absent value leaves the list as it is; no other draft
\* field changes.
C33_RemoveLaw ==
    LET b == builder
    IN /\ \A m \in Measures :
            /\ draft(removeMeasure(b, m))
                  = [draft(b) EXCEPT !.measures = Without(@, LAMBDA x : x = m)]
            /\ m \notin Range(b.measures) => removeMeasure(b, m) = b
            /\ m \notin Range(removeMeasure(b, m).measures)
       /\ \A x \in Dimensions :
            /\ draft(removeDimension(b, x))
                  = [draft(b) EXCEPT !.dimensions = Without(@, LAMBDA y : y = x)]
            /\ x \notin Range(b.dimensions) => removeDimension(b, x) = b
       /\ \A sg \in Segments :
            /\ draft(removeSegment(b, sg))
                  = [draft(b) EXCEPT !.segments = Without(@, LAMBDA y : y = sg)]
            /\ sg \notin Range(b.segments) => removeSegment(b, sg) = b
       /\ \A k \in TimeKeys :
            /\ draft(removeTimeDimension(b, k))
                  = [draft(b) EXCEPT !.timeDimensions = Without(@, LAMBDA td : td.dimension = k)]
            /\ k \notin {td.dimension : td \in Range(b.timeDimensions)}
                  => removeTimeDimension(b, k) = b
       /\ \A index \in 0..(Len(b.filters) + 1) :
            /\ draft(removeFilter(b, index))
                  = [draft(b) EXCEPT !.filters = WithoutIndex(@, index)]
            /\ index >= Len(b.filters) => removeFilter(b, index) = b

\* C33 witness: removeMeasure was called on a list holding the same measure
\* twice (after an update), and both occurrences are gone.
C33_Witness ==
    /\ builder.lastOp = "removeMeasure"
    /\ builder.ops = 3
    /\ builder.initialMeasures = <<"Orders.count">>
    /\ builder.measures = <<>>
    /\ builder.dimensions = builder.initialDimensions

\* xs with every element that satisfies Hit replaced by To of it, in place.
Replaced(xs, Hit(_), To(_)) == [j \in 1..Len(xs) |-> IF Hit(xs[j]) THEN To(xs[j]) ELSE xs[j]]

\* The entry td after an update of its granularity or of its dimension key.
Merged(td, u) ==
    [dimension |-> IF "dimension" \in DOMAIN u THEN u.dimension ELSE td.dimension,
     granularity |-> IF "granularity" \in DOMAIN u THEN u.granularity ELSE td.granularity]

\* C34: on every reachable draft, updateMeasure / updateDimension(old, new)
\* and updateFilter(i, f) keep the length of the list and every element's
\* position and change only the entries equal to old (the entry at index
\* i); updateTimeDimension(d, u) merges u into every entry of key d; when
\* nothing matches the draft is unchanged; no other draft field changes.
C34_UpdateInPlace ==
    LET b == builder
    IN /\ \A old \in Measures : \A new \in Measures :
            /\ draft(updateMeasure(b, old, new))
                  = [draft(b) EXCEPT !.measures = Replaced(@, LAMBDA x : x = old, LAMBDA x : new)]
            /\ Len(updateMeasure(b, old, new).measures) = Len(b.measures)
            /\ old \notin Range(b.measures) => updateMeasure(b, old, new) = b
       /\ \A old \in Dimensions : \A new \in Dimensions :
            /\ draft(updateDimension(b, old, new))
                  = [draft(b) EXCEPT !.dimensions = Replaced(@, LAMBDA x : x = old, LAMBDA x : new)]
            /\ old \notin Range(b.dimensions) => updateDimension(b, old, new) = b
       /\ \A k \in TimeKeys : \A u \in TimeUpdates :
            /\ draft(updateTimeDimension(b, k, u))
                  = [draft(b) EXCEPT !.timeDimensions =
                        Replaced(@, LAMBDA td : td.dimension = k, LAMBDA td : Merged(td, u))]
            /\ k \notin {td.dimension : td \in Range(b.timeDimensions)}
                  => updateTimeDimension(b, k, u) = b
       /\ \A index \in 0..(Len(b.filters) + 1) : \A f \in Filters :
            /\ Len(updateFilter(b, index, f).filters) = Len(b.filters)
            /\ draft(updateFilter(b, index, f))
                  = [draft(b) EXCEPT !.filters =
                        [j \in 1..Len(@) |-> IF j = index + 1 THEN f ELSE @[j]]]
            /\ index >= Len(b.filters) => updateFilter(b, index, f) = b

\* C34 witness: updateTimeDimension changed the granularity of the seeded
\* entry in place, next to an entry added before.
C34_Witness ==
    /\ builder.lastOp = "updateTimeDimension"
    /\ Len(builder.timeDimensions) = 2
    /\ builder.initialTimeDimensions = <<TimeDimension("Orders.createdAt", "day")>>
    /\ builder.timeDimensions[1] = TimeDimension("Orders.createdAt", "month")
    /\ builder.timeDimensions[2].dimension = "Orders.updatedAt"

\* No member twice in measures, dimensions, segments; no dimension key twice
\* in timeDimensions.
NoDuplicates(b) ==
    /\ \A xs \in {b.measures, b.dimensions, b.segments} :
          \A j \in DOMAIN xs : \A k \in DOMAIN xs : xs[j] = xs[k] => j = k
    /\ \A j \in DOMAIN b.timeDimensions : \A k \in DOMAIN b.timeDimensions :
          b.timeDimensions[j].dimension = b.timeDimensions[k].dimension => j = k

AddRemoveUpdateOps ==
    {"addMeasure", "removeMeasure", "updateMeasure",
     "addDimension", "removeDimension", "updateDimension",
     "addSegment", "removeSegment",
     "addTimeDimension", "removeTimeDimension", "updateTimeDimension"}

\* C35: an add, remove or update operation applied to a draft without
\* duplicates yields a draft without duplicates.
C35_NoDuplicateMembers ==
    [][(NoDuplicates(builder) /\ builder'.lastOp \in AddRemoveUpdateOps /\ builder'.ops = builder.ops + 1)
          => NoDuplicates(builder')]_vars

\* The dimensions of every cube of a metadata value.
AllDimensions(meta) == UNION {Range(meta.cubes[k].dimensions) : k \in DOMAIN meta.cubes}

Names(members) == {m.name : m \in Range(members)}

\* C36: for every live builder, with meta the metadata its cell holds: the
\* four available-member lists are empty when meta is null; otherwise
\* availableDimensions names exactly the dimensions whose type is not
\* 'time' and availableTimeDimensions exactly those whose type is 'time', so
\* the two are disjoint and together name every dimension of every cube.
C36_AvailableMembers ==
    \A i \in Insts :
        (Live(i) /\ cells[i].kind = "builder") =>
            LET meta == metaOf(cells[i].value)
            IN /\ cells[i].value = NullV =>
                    /\ availableMeasures(meta) = <<>>
                    /\ availableDimensions(meta) = <<>>
                    /\ availableTimeDimensions(meta) = <<>>
                    /\ availableSegments(meta) = <<>>
               /\ cells[i].value # NullV =>
                    /\ Names(availableDimensions(meta))
                          = {d.name : d \in {x \in AllDimensions(meta) : x.type # "time"}}
                    /\ Names(availableTimeDimensions(meta))
                          = {d.name : d \in {x \in AllDimensions(meta) : x.type = "time"}}
                    /\ \A m \in Range(availableDimensions(meta)) : m.type # "time"
                    /\ \A m \in Range(availableTimeDimensions(meta)) : m.type = "time"
                    /\ Names(availableDimensions(meta))
                          \cap Names(availableTimeDimensions(meta)) = {}
                    /\ Len(availableDimensions(meta)) + Len(availableTimeDimensions(meta))
                          = Cardinality(AllDimensions(meta))

\* C36 witness: a builder whose metadata fetch resolved with two cubes holds
\* two plain and two time dimensions.
C36_Witness ==
    \E i \in Insts :
        /\ Live(i) /\ cells[i].kind = "builder"
        /\ cells[i].value = Res(1)
        /\ Len(availableDimensions(metaOf(cells[i].value))) = 2
        /\ Len(availableTimeDimensions(metaOf(cells[i].value))) = 2

\* The members of a metadata value that end up in an available-member list.
SourceMembers(meta) ==
    UNION {Range(meta.cubes[k].measures) \cup Range(meta.cubes[k].dimensions)
               \cup Range(meta.cubes[k].segments) : k \in DOMAIN meta.cubes}

\* C40: every entry of the four lists computed from a metadata value has
\* isVisible equal to its member's public flag when public is a boolean, and
\* equal to the member's isVisible flag when public is null or undefined.
C40_PublicOverridesIsVisible ==
    call.fn = "availableMembers" =>
        \A list \in {call.out.measures, call.out.dimensions,
                     call.out.timeDimensions, call.out.segments} :
            \A j \in DOMAIN list :
                \E m \in SourceMembers(call.arg) :
                    /\ m.name = list[j].name
                    /\ m.public.t = "boolean" => list[j].isVisible = m.public
                    /\ m.public.t \in {"null", "undefined"} => list[j].isVisible = m.isVisible

\* C40 witness: a measure with public = false and isVisible = true is
\* listed with isVisible = false.
C40_Witness ==
    /\ call.fn = "availableMembers"
    /\ call.arg.t = "meta"
    /\ Len(call.arg.cubes) = 1
    /\ call.arg.cubes[1].measures[1].public = BoolV(FALSE)
    /\ call.arg.cubes[1].measures[1].isVisible = BoolV(TRUE)
    /\ call.out.measures[1].isVisible = BoolV(FALSE)

\* C37: a step that calls a draft operation leaves the metadata cell as it
\* is (meta, isMetaLoading, metaError, version, requests made), and a step
\* of the metadata cell ($effect, settlement) leaves every draft field and
\* the derived query as they are.
C37_DraftAndMetaApart ==
    [][/\ (builder'.lastOp # builder.lastOp \/ builder'.ops # builder.ops
              \/ draft(builder') # draft(builder))
          => \A i \in Insts :
                /\ cells'[i].value = cells[i].value
                /\ cells'[i].loading = cells[i].loading
                /\ cells'[i].error = cells[i].error
                /\ cells'[i].requestVersion = cells[i].requestVersion
                /\ cells'[i].reqs = cells[i].reqs
       /\ cells' # cells
          => /\ draft(builder') = draft(builder)
             /\ derivedQuery(builder') = derivedQuery(builder)]_vars

\* C37 witness: the metadata fetch settled between two draft operations.
C37_Witness ==
    /\ cells[1].kind = "builder"
    /\ cells[1].value = Res(1)
    /\ ~cells[1].loading
    /\ builder.ops = 2
    /\ builder.lastOp = "addMeasure"
    /\ builder.measures = <<"Orders.total">>
    /\ builder.chartType = "pie"

\* C38: a builder calls client.meta() at most once, and never when
\* initialMeta was supplied; once a fetch has failed, metaError stays set,
\* meta stays null and the four available-member lists stay empty in every
\* later step, whatever operation of the builder is called.
C38_MetaFetchedAtMostOnce ==
    [][\A i \in Insts :
          LET c == cells[i]
              d == cells'[i]
          IN (c.kind = "builder" /\ c.status = "live")
             => /\ Calls(d) <= 1
                /\ c.initial => Calls(d) = 0 /\ d.value = Seed
                /\ Calls(d) >= Calls(c)
                /\ c.error # NullV
                   => /\ d.error = c.error
                      /\ d.value = NullV
                      /\ ~d.loading
                      /\ availableMeasures(metaOf(d.value)) = <<>>
                      /\ availableDimensions(metaOf(d.value)) = <<>>
                      /\ availableTimeDimensions(metaOf(d.value)) = <<>>
                      /\ availableSegments(metaOf(d.value)) = <<>>]_vars

\* C38 witness: the only metadata fetch failed, and a draft operation
\* called after that left the error in place.
C38_Witness ==
    /\ cells[1].kind = "builder"
    /\ Calls(cells[1]) = 1
    /\ latest(cells[1]).st = "fail"
    /\ cells[1].error # NullV
    /\ cells[1].value = NullV
    /\ builder.ops = 1
    /\ builder.lastOp = "setLimit"

\* C39: the client a binding resolved at construction (explicit option,
\* else the context's client at that moment) never changes afterwards, also
\* when the provider replaces the context's client, and every remote call
\* the binding issues is sent to that client.
C39_ClientResolvedOnce ==
    [][\A i \in Insts :
          LET c == cells[i]
              d == cells'[i]
          IN /\ (c.status = "unconstructed" /\ d.status = "live")
                => d.client = resolveClient(c.clientOverride, tryGetCubeClient(ambient))
             /\ c.status = "live" => d.client = c.client
             /\ IssueStep(i) => latest(d).client = c.client
             /\ \A v \in DOMAIN d.reqs : d.reqs[v].client = d.client]_vars

\* C39 witness: a binding constructed under the provider's first client
\* issued its second call to that client after the provider had replaced it.
C39_Witness ==
    \E i \in Insts :
        /\ Live(i)
        /\ cells[i].clientOverride = Undefined
        /\ cells[i].client = "ambientA"
        /\ ambient = Context("ambientB")
        /\ cells[i].requestVersion = 2
        /\ cells[i].reqs[2].client = "ambientA"
        /\ cells[i].reqs[2].st = "inflight"

====
